---- MODULE Spec2Model ----
(***************************************************************************)
(* Model of the zenbot agent routing and streaming pipeline                *)
(* (AgentService, KnowledgeBaseTool, lanceClient, TransformersModel).      *)
(*                                                                         *)
(* Strings are sequences of pieces; a piece is a TLA+ string.  Text whose  *)
(* letters matter (queries, model output, keywords) is spelled one         *)
(* character per piece; a literal of the source whose inside is never      *)
(* inspected is one piece.  Concatenation is \o, so a template literal is  *)
(* the concatenation of its literal pieces and its interpolated values.    *)
(***************************************************************************)
EXTENDS Integers, Sequences, FiniteSets, TLC

VARIABLES
    mode,              \* "fast" | "thinking": which entry point the caller uses
    query,             \* the user utterance given to the entry point
    history,           \* BaseMessage[] given to the entry point
    pc,                \* position of the turn (the await it is suspended at)
    sink,              \* tokens given to onToken, in order
    intent,            \* result of classifyIntent ("" before it returns)
    refinedQuery,      \* result of generateSearchQuery (<<>> before it returns)
    searchResult,      \* string returned by knowledgeTool.call (<<>> before)
    genKind,           \* which generation step runs: greeting | refusal | response
    invokeLog,         \* message lists given to model.invoke, in order
    streamLog,         \* message lists given to model.stream, in order
    toolInputs,        \* inputs given to knowledgeTool.call, in order
    toolOutcome,       \* what happened inside KnowledgeBaseTool._call
    raisedAt,          \* the step whose service call raised ("none" if none)
    returned,          \* "pending" | "value" | "apology" | "thrown"
    genContext,        \* the context argument given to streamResponse
    genCount,          \* tokens yielded so far by the current model stream
    db,                \* lanceClient: db !== null
    table,             \* lanceClient: table !== null
    embeddingPipeline, \* lanceClient: embeddingPipeline !== null
    knowledgeConfig,   \* the knowledge_config the tool reads
    pt,                \* client: the streaming message buffer and its parses
    rag,               \* ragService: one call of buildRAGPrompt
    conc,              \* concurrent chat requests and the generation pipeline
    kb,                \* lanceClient: the knowledge_base table and one route call
    qd,                \* lanceClient: calls of queryDocuments on one candidate list
    chat,              \* sqlite: messages and chat_bin, and one chat request
    strm,              \* TransformersModel: the queue bridge of one stream
    cfgdb,             \* sqlite: the knowledge_config table
    cls,               \* AgentService: one call of classifyIntent
    sse,               \* chat route: the POST /stream requests and their events
    rd,                \* client: sendMessageStream reading one response
    kbc                \* lanceClient: concurrent calls of addDocument

turnVars == <<mode, query, history, pc, sink, intent, refinedQuery, searchResult,
          genKind, invokeLog, streamLog, toolInputs, toolOutcome, raisedAt,
          returned, genContext, genCount, db, table, embeddingPipeline, knowledgeConfig>>

wireVars == <<cls, sse, rd, kbc>>

storeVars == <<kb, qd, chat, strm, cfgdb, wireVars>>

sideVars == <<pt, rag, conc, storeVars>>

vars == <<turnVars, sideVars>>

(***************************************************************************)
(* Bounds of the model.                                                    *)
(***************************************************************************)
MaxGenTokens == 2
MaxCandidates == 2

(***************************************************************************)
(* String helpers (String.prototype.includes, startsWith, trim,            *)
(* toUpperCase, toLowerCase, replace, Array.prototype.join, slice).        *)
(***************************************************************************)
LowerAlpha == <<"a", "b", "c", "d", "e", "f", "g", "h", "i", "j", "k", "l", "m",
                "n", "o", "p", "q", "r", "s", "t", "u", "v", "w", "x", "y", "z">>
UpperAlpha == <<"A", "B", "C", "D", "E", "F", "G", "H", "I", "J", "K", "L", "M",
                "N", "O", "P", "Q", "R", "S", "T", "U", "V", "W", "X", "Y", "Z">>

ToUpperChar(c) ==
    IF \E i \in 1..26 : LowerAlpha[i] = c
    THEN UpperAlpha[CHOOSE i \in 1..26 : LowerAlpha[i] = c]
    ELSE c

ToLowerChar(c) ==
    IF \E i \in 1..26 : UpperAlpha[i] = c
    THEN LowerAlpha[CHOOSE i \in 1..26 : UpperAlpha[i] = c]
    ELSE c

ToUpperCase(s) == [i \in 1..Len(s) |-> ToUpperChar(s[i])]

ToLowerCase(s) == [i \in 1..Len(s) |-> ToLowerChar(s[i])]

Includes(s, sub) ==
    \E i \in 1..(Len(s) + 1) :
        /\ i + Len(sub) - 1 <= Len(s)
        /\ SubSeq(s, i, i + Len(sub) - 1) = sub

StartsWith(s, p) == Len(s) >= Len(p) /\ SubSeq(s, 1, Len(p)) = p

IsSpace(c) == c \in {" ", "\n", "\t"}

RECURSIVE TrimStart(_)
TrimStart(s) ==
    IF s # <<>> /\ IsSpace(Head(s)) THEN TrimStart(Tail(s)) ELSE s

RECURSIVE TrimEnd(_)
TrimEnd(s) ==
    IF s # <<>> /\ IsSpace(s[Len(s)]) THEN TrimEnd(SubSeq(s, 1, Len(s) - 1)) ELSE s

Trim(s) == TrimEnd(TrimStart(s))

\* String.prototype.replace with a string pattern: the first occurrence only.
Replace(s, pat, rep) ==
    IF Includes(s, pat)
    THEN LET i == CHOOSE k \in 1..Len(s) :
                      /\ k + Len(pat) - 1 <= Len(s)
                      /\ SubSeq(s, k, k + Len(pat) - 1) = pat
                      /\ \A j \in 1..(k - 1) :
                            SubSeq(s, j, j + Len(pat) - 1) # pat
         IN SubSeq(s, 1, i - 1) \o rep \o SubSeq(s, i + Len(pat), Len(s))
    ELSE s

RECURSIVE Join(_, _)
Join(parts, sep) ==
    IF parts = <<>> THEN <<>>
    ELSE IF Len(parts) = 1 THEN parts[1]
    ELSE parts[1] \o sep \o Join(Tail(parts), sep)

\* String.prototype.length: the characters of all pieces.
RECURSIVE StrLen(_)
StrLen(s) == IF s = <<>> THEN 0 ELSE Len(Head(s)) + StrLen(Tail(s))

\* Array.prototype.slice(-n): the last n elements (all of them if fewer).
SliceLast(arr, n) ==
    IF Len(arr) <= n THEN arr ELSE SubSeq(arr, Len(arr) - n + 1, Len(arr))

(***************************************************************************)
(* Literals of agentService.ts.  The prompts are opaque pieces; the two    *)
(* placeholders of RESPONSE_PROMPT are pieces of their own.                *)
(***************************************************************************)
ROUTER_PROMPT == <<"ROUTER_PROMPT">>
REFUSE_PROMPT == <<"REFUSE_PROMPT">>
GREETING_PROMPT == <<"You are Zenbot. Reply positively to the user's greeting.">>
SEARCH_QUERY_PROMPT == <<"SEARCH_QUERY_PROMPT">>
RESPONSE_PROMPT ==
    <<"You are Zenbot ... Context:\n", "{context}", "\n\nUser Query:\n", "{query}",
      "\n\nAnswer the user's question based on the context above.">>

KW_HASINTHAKA == <<"h", "a", "s", "i", "n", "t", "h", "a", "k", "a">>
KW_ZENLISE == <<"z", "e", "n", "l", "i", "s", "e">>
KW_ZENBOT == <<"z", "e", "n", "b", "o", "t">>
S_GREETING == <<"G", "R", "E", "E", "T", "I", "N", "G">>
S_KNOWLEDGE == <<"K", "N", "O", "W", "L", "E", "D", "G", "E">>
S_OFF_TOPIC == <<"O", "F", "F", "_", "T", "O", "P", "I", "C">>

Labels == {"GREETING", "KNOWLEDGE", "OFF_TOPIC"}

OPEN_MARKER == "<think>"
CLOSE_MARKER == "</think>"
ThinkOpenToken == <<OPEN_MARKER>>
ThinkCloseToken == <<CLOSE_MARKER, "\n\n">>
ApologyToken ==
    <<"I apologize, but I encountered an error while processing your request.">>

SystemMessage(c) == [role |-> "system", content |-> c]
HumanMessage(c) == [role |-> "human", content |-> c]
AIMessage(c) == [role |-> "ai", content |-> c]

\* What onToken receives: the text, tagged with who produced it (the
\* orchestrator's own literals, or a chunk of the model's stream).
AgentTok(text) == [src |-> "agent", text |-> text]
ModelTok(text) == [src |-> "model", text |-> text]

(***************************************************************************)
(* Inputs: user utterances, histories, model outputs.                      *)
(***************************************************************************)
Q_hello == <<"h", "e", "l", "l", "o">>
Q_HiZenBot == <<"H", "i", " ", "Z", "e", "n", "B", "o", "t">>
Q_zenlise == <<"w", "h", "a", "t", " ", "i", "s", " ", "Z", "e", "n", "l", "i", "s", "e", "?">>
Q_sort == <<"s", "o", "r", "t", " ", "a", " ", "l", "i", "s", "t">>
Q_who == <<"w", "h", "o", " ", "i", "s", " ", "H", "A", "S", "I", "N", "T", "H", "A", "K", "A">>

Queries == {Q_hello, Q_HiZenBot, Q_zenlise, Q_sort, Q_who}

Histories ==
    { <<>>,
      << HumanMessage(Q_hello), AIMessage(<<"Hi!">>),
         HumanMessage(Q_zenlise), AIMessage(<<"Zenlise is a tool.">>) >> }

\* Texts the generation service may return from a single-shot invoke when
\* asked to classify.
RouterTexts ==
    { <<"G", "R", "E", "E", "T", "I", "N", "G">>,
      <<" ", "K", "n", "o", "w", "l", "e", "d", "g", "e", "\n">>,
      <<"o", "f", "f", "_", "t", "o", "p", "i", "c">>,
      <<"G", "r", "e", "e", "t", "i", "n", "g", "!">>,
      <<"u", "n", "s", "u", "r", "e">> }

\* Texts the generation service may return when asked to refine the query.
RefinerTexts ==
    { <<" ", "z", "e", "n", "l", "i", "s", "e", " ", "f", "e", "a", "t", "u", "r", "e", "s", "\n">>,
      <<"b", "i", "o">> }

\* Chunks the generation service may stream (non-empty: onChunk drops "").
GenTokens == { <<"Hello">>, <<" there">> }

\* The ChatResult of TransformersModel._generate: AIMessage(reply), where
\* reply = extractReply(result) is always a string.
InvokeResult(text) == [isString |-> TRUE, content |-> text]

(***************************************************************************)
(* AgentService.classifyIntent, after model.invoke has returned `result`.  *)
(***************************************************************************)
HasKeyword(q) ==
    \/ Includes(ToLowerCase(q), KW_HASINTHAKA)
    \/ Includes(ToLowerCase(q), KW_ZENLISE)
    \/ Includes(ToLowerCase(q), KW_ZENBOT)

\* a variant of classifyIntent whose last resort is KNOWLEDGE
classifyIntentUnsureKnowledge(result, q) ==
    LET text == IF result.isString THEN ToUpperCase(Trim(result.content))
                ELSE S_OFF_TOPIC
    IN IF Includes(text, S_GREETING) THEN "GREETING"
       ELSE "KNOWLEDGE"

classifyIntent(result, q) ==
    LET text == IF result.isString THEN ToUpperCase(Trim(result.content))
                ELSE S_OFF_TOPIC
    IN IF Includes(text, S_GREETING) THEN "GREETING"
       ELSE IF Includes(text, S_KNOWLEDGE) THEN "KNOWLEDGE"
       ELSE IF HasKeyword(q) THEN "KNOWLEDGE"
       ELSE "OFF_TOPIC"

\* The message list classifyIntent gives to model.invoke.
classifyMessages(q, h) ==
    <<SystemMessage(ROUTER_PROMPT)>> \o SliceLast(h, 3) \o <<HumanMessage(q)>>

(***************************************************************************)
(* AgentService.generateSearchQuery.                                       *)
(***************************************************************************)
searchQueryMessages(q, h) ==
    <<SystemMessage(SEARCH_QUERY_PROMPT)>> \o SliceLast(h, 3) \o <<HumanMessage(q)>>

generateSearchQuery(result, q) ==
    IF result.isString THEN Trim(result.content) ELSE q

(***************************************************************************)
(* Message lists of the three generation steps.                            *)
(***************************************************************************)
greetingMessages(q) == <<SystemMessage(GREETING_PROMPT), HumanMessage(q)>>

refusalMessages(q) == <<SystemMessage(REFUSE_PROMPT), HumanMessage(q)>>

streamResponseMessages(q, context) ==
    LET systemContent ==
            Replace(Replace(RESPONSE_PROMPT, <<"{context}">>, context), <<"{query}">>, q)
    IN <<SystemMessage(systemContent), HumanMessage(q)>>

(***************************************************************************)
(* lanceClient.queryDocuments and KnowledgeBaseTool._call.                 *)
(* Distances are in tenths and similarity scores in two-hundredths, so     *)
(* that 1 - d*d/2 is the exact integer (200 - d*d) / 200.                  *)
(***************************************************************************)
Max(a, b) == IF a >= b THEN a ELSE b

\* a variant with Math.abs in place of the clamp of Math.max
ScoreAbs(dist) ==
    IF 200 - dist * dist >= 0 THEN 200 - dist * dist ELSE dist * dist - 200

Score(dist) == Max(0, 200 - dist * dist)

\* Records of the knowledge_base table as table.search returns them,
\* with _distance to the query vector.
Docs ==
    { [id |-> "a", title |-> <<"Zenlise">>,
       text |-> <<"Zenlise is a workflow tool built by Hasinthaka; it plans tasks, tracks progress and reports results to the whole team.">>,
       dist |-> 3],
      [id |-> "b", title |-> <<>>,
       text |-> <<"Hasinthaka bio: engineer, author of ZenBot.">>, dist |-> 10],
      [id |-> "c", title |-> <<"FAQ">>,
       text |-> <<"No relevant information", " is stored about pricing.">>, dist |-> 7],
      [id |-> "d", title |-> <<"Misc">>, text |-> <<"Other">>, dist |-> 15] }

RECURSIVE SeqsUpTo(_, _)
SeqsUpTo(S, n) ==
    IF n = 0 THEN {<<>>}
    ELSE LET shorter == SeqsUpTo(S, n - 1)
         IN shorter \cup {Append(q, x) : q \in shorter, x \in S}

\* What table.search(v).limit(limit).toArray() may return: at most `limit`
\* distinct records, nearest first.
Candidates(limit) ==
    { c \in SeqsUpTo(Docs, MaxCandidates) :
        /\ Len(c) <= limit
        /\ \A i, j \in 1..Len(c) : i < j => c[i].dist < c[j].dist }

\* a variant of the loop below that drops the results above minSimilarity
RECURSIVE queryDocumentsKeepBelow(_, _)
queryDocumentsKeepBelow(cands, minSimilarity) ==
    IF cands = <<>> THEN <<>>
    ELSE LET r == Head(cands)
             score == Score(r.dist)
             rest == queryDocumentsKeepBelow(Tail(cands), minSimilarity)
         IN IF score > minSimilarity THEN rest
            ELSE <<[id |-> r.id, text |-> r.text, title |-> r.title, score |-> score]>> \o rest

\* The loop of queryDocuments: convert, drop below minSimilarity, keep order.
RECURSIVE queryDocuments(_, _)
queryDocuments(cands, minSimilarity) ==
    IF cands = <<>> THEN <<>>
    ELSE LET r == Head(cands)
             score == Score(r.dist)
             rest == queryDocuments(Tail(cands), minSimilarity)
         IN IF score < minSimilarity THEN rest
            ELSE <<[id |-> r.id, text |-> r.text, title |-> r.title, score |-> score]>> \o rest

NotReadyMsg == <<"Knowledge base is not ready.">>
NoResultsMsg == <<"No relevant information", " found in the knowledge base.">>
ErrorMsg(msg) == <<"Error", " searching knowledge base: ">> \o msg

DocBlock(r) ==
    <<"[Title: ">> \o (IF r.title # <<>> THEN r.title ELSE <<"Untitled">>)
        \o <<"]\nContent: ">> \o r.text

\* The tail of KnowledgeBaseTool._call once queryDocuments has returned.
FormatResults(results) ==
    IF Len(results) = 0 THEN NoResultsMsg
    ELSE Join([i \in 1..Len(results) |-> DocBlock(results[i])], <<"\n\n---\n\n">>)

Configs ==
    { [maxDocuments |-> 3, similarityThreshold |-> 140, maxContextLength |-> 2000],
      [maxDocuments |-> 1, similarityThreshold |-> 40, maxContextLength |-> 100] }

getKnowledgeConfig == knowledgeConfig

ServiceErrors == { <<"service failed">> }

(***************************************************************************)
(* The orchestrator's reading of the tool result (agentService.ts 92, 157) *)
(* and its branch on the intent (134-144).                                 *)
(***************************************************************************)
\* Faulty variants of the test below: each forgets one of its two clauses.
IsNoContextIgnoringError(sr) == Includes(sr, <<"No relevant information">>)

IsNoContextIgnoringEmpty(sr) == StartsWith(sr, <<"Error">>)

IsNoContext(sr) ==
    Includes(sr, <<"No relevant information">>) \/ StartsWith(sr, <<"Error">>)

\* Faulty variant of the branch below: OFF_TOPIC falls through to retrieval.
BranchOnlyGreeting(label) ==
    IF label = "GREETING" THEN "greeting" ELSE "knowledge"

Branch(label) ==
    IF label = "GREETING" THEN "greeting"
    ELSE IF label = "OFF_TOPIC" THEN "refusal"
    ELSE "knowledge"

Emit(tokens) == sink' = sink \o tokens

(***************************************************************************)
(* Values of the variables of the other components while no message is     *)
(* being rendered, no prompt is being built and no request is in flight.   *)
(***************************************************************************)
NoParse ==
    [response |-> <<>>, thinkingParts |-> <<>>, isInsideThink |-> FALSE,
     currentThink |-> <<>>, endedInside |-> FALSE]

PtIdle == [raw |-> <<>>, chunks |-> 0, cur |-> NoParse, prev |-> NoParse]

RagIdle == [pc |-> "idle", results |-> <<>>, contextStr |-> <<>>, sources |-> <<>>]

ConcIdle == [pc |-> <<>>, left |-> <<>>, instance |-> FALSE, created |-> 0]

\* no addDocument call in progress
NoCall ==
    [route |-> "none", id |-> 0, text |-> <<>>, metadata |-> <<>>,
     sent |-> <<>>, record |-> <<>>, notReady |-> FALSE, awaitedInit |-> FALSE]

KbIdle ==
    [exists |-> FALSE, rows |-> <<>>, clock |-> 0, issued |-> 0, pc |-> "idle",
     call |-> NoCall, trip |-> <<>>, lastAdd |-> {}]

QdIdle ==
    [pc |-> "idle", cands |-> <<>>, minSimilarity |-> 0, results |-> <<>>,
     prevMin |-> 0, prevResults |-> <<>>]

\* what the last chat call did; nothing yet
NoChatCall ==
    [op |-> "none", session |-> "", limit |-> 0, result |-> <<>>, before |-> <<>>,
     status |-> "", body |-> [type |-> "undefined", value |-> <<>>], runsBefore |-> 0]

ChatIdle ==
    [messages |-> <<>>, bin |-> <<>>, clock |-> 0, issued |-> 0, pending |-> <<>>,
     agentRuns |-> 0, last |-> NoChatCall]

\* _streamResponseChunks not called
StrmIdle ==
    [pc |-> "idle", generation |-> "idle", queue |-> <<>>, resolveNext |-> FALSE,
     isDone |-> FALSE, error |-> FALSE, produced |-> <<>>, yielded |-> <<>>]

\* the value of an absent property, and the value of a string
Undefined == [type |-> "undefined", s |-> <<>>]

Str(chars) == [type |-> "string", s |-> chars]

\* a number in hundredths, or NaN
Num(v) == [nan |-> FALSE, v |-> v]

NaN == [nan |-> TRUE, v |-> 0]

NoConfigCall ==
    [op |-> "", status |-> "", input |-> <<>>, config |-> <<>>, before |-> <<>>]

\* sqlite.ts before initDb: db is null, the knowledge_config rows of the
\* file at DB_PATH are not loaded
CfgIdle == [db |-> FALSE, rows |-> <<>>, last |-> NoConfigCall]

\* no call of the stores in progress
\* classifyIntent not called
ClsIdle ==
    [pc |-> "idle", query |-> <<>>, messages |-> <<>>,
     result |-> InvokeResult(<<>>), label |-> ""]

\* the chat route with no POST /stream request received
SseIdle == [messages |-> <<>>, clock |-> 0, issued |-> 0, reqs |-> <<>>]

\* the client with no sendMessageStream call made
RdIdle ==
    [pc |-> "idle", events |-> <<>>, wire |-> <<>>, pos |-> 0,
     pending |-> <<>>, buffer |-> <<>>, calls |-> <<>>]

\* lanceClient with no call of addDocument made
KbcIdle == [exists |-> FALSE, table |-> FALSE, rows |-> <<>>, calls |-> <<>>]

\* no classification, stream request, reader or concurrent upsert in progress
WireIdle ==
    /\ cls = ClsIdle
    /\ sse = SseIdle
    /\ rd = RdIdle
    /\ kbc = KbcIdle

StoresIdle ==
    /\ WireIdle
    /\ kb = KbIdle
    /\ qd = QdIdle
    /\ chat = ChatIdle
    /\ strm = StrmIdle
    /\ cfgdb = CfgIdle

lanceVars == <<db, table, embeddingPipeline>>
turnInputs == <<mode, query, history, knowledgeConfig>>

(***************************************************************************)
(* State after construction of AgentService: nothing emitted, and the      *)
(* lanceClient module state still null (initLanceDB has not completed).    *)
(***************************************************************************)
Init ==
    /\ mode \in {"fast", "thinking"}
    /\ query \in Queries
    /\ history \in Histories
    /\ knowledgeConfig \in Configs
    /\ pc = "start"
    /\ sink = <<>>
    /\ intent = ""
    /\ refinedQuery = <<>>
    /\ searchResult = <<>>
    /\ genKind = "none"
    /\ invokeLog = <<>>
    /\ streamLog = <<>>
    /\ toolInputs = <<>>
    /\ toolOutcome = "none"
    /\ raisedAt = "none"
    /\ returned = "pending"
    /\ genContext = <<>>
    /\ genCount = 0
    /\ db = FALSE
    /\ table = FALSE
    /\ embeddingPipeline = FALSE
    /\ pt = PtIdle
    /\ rag = RagIdle
    /\ conc = ConcIdle
    /\ StoresIdle

(***************************************************************************)
(* initLanceDB, one action per await.                                      *)
(***************************************************************************)
InitLoadEmbedding ==
    /\ ~embeddingPipeline
    /\ embeddingPipeline' = TRUE
    /\ UNCHANGED <<db, table, turnInputs, pc, sink, intent, refinedQuery, searchResult,
                   genKind, invokeLog, streamLog, toolInputs, toolOutcome, raisedAt,
                   returned, genContext, genCount>>
    /\ UNCHANGED sideVars

InitConnect ==
    /\ embeddingPipeline
    /\ ~db
    /\ db' = TRUE
    /\ UNCHANGED <<embeddingPipeline, table, turnInputs, pc, sink, intent, refinedQuery,
                   searchResult, genKind, invokeLog, streamLog, toolInputs, toolOutcome,
                   raisedAt, returned, genContext, genCount>>
    /\ UNCHANGED sideVars

InitOpenTable ==
    /\ db
    /\ ~table
    /\ table' = TRUE
    /\ UNCHANGED <<embeddingPipeline, db, turnInputs, pc, sink, intent, refinedQuery,
                   searchResult, genKind, invokeLog, streamLog, toolInputs, toolOutcome,
                   raisedAt, returned, genContext, genCount>>
    /\ UNCHANGED sideVars

(***************************************************************************)
(* Fragments shared by the two entry points.                               *)
(***************************************************************************)
\* knowledgeTool.call(input) up to its first await: the readiness test of
\* _call and the table test of queryDocuments.
CallTool(input) ==
    /\ toolInputs' = Append(toolInputs, input)
    /\ IF ~db
       THEN /\ searchResult' = NotReadyMsg
            /\ toolOutcome' = "notReady"
            /\ pc' = "toolDone"
       ELSE IF ~table
       THEN /\ searchResult' = FormatResults(<<>>)
            /\ toolOutcome' = "noTable"
            /\ pc' = "toolDone"
       ELSE /\ pc' = "embed"
            /\ UNCHANGED <<searchResult, toolOutcome>>

\* await this.model.stream(messages) of a generation step.
StartStream(kind, messages) ==
    /\ streamLog' = Append(streamLog, messages)
    /\ genKind' = kind
    /\ genCount' = 0
    /\ pc' = "gen"

\* streamResponse(query, context, onToken) up to model.stream.
streamResponse(q, context) ==
    /\ genContext' = context
    /\ StartStream("response", streamResponseMessages(q, context))

(***************************************************************************)
(* runFastStream.                                                          *)
(***************************************************************************)
\* Faulty variant of the start below: fast mode opens a reasoning trace.
runFastStream_startThinking ==
    /\ pc = "start"
    /\ mode = "fast"
    /\ Emit(<<AgentTok(ThinkOpenToken)>>)
    /\ CallTool(query)
    /\ UNCHANGED <<lanceVars, turnInputs, intent, refinedQuery, genKind, invokeLog,
                   streamLog, raisedAt, returned, genContext, genCount>>
    /\ UNCHANGED sideVars

runFastStream_start ==
    /\ pc = "start"
    /\ mode = "fast"
    /\ CallTool(query)
    /\ UNCHANGED <<lanceVars, turnInputs, sink, intent, refinedQuery, genKind, invokeLog,
                   streamLog, raisedAt, returned, genContext, genCount>>
    /\ UNCHANGED sideVars

runFastStream_afterTool ==
    /\ pc = "toolDone"
    /\ mode = "fast"
    /\ IF IsNoContext(searchResult)
       THEN streamResponse(query, <<>>)
       ELSE streamResponse(query, searchResult)
    /\ UNCHANGED <<lanceVars, turnInputs, sink, intent, refinedQuery, searchResult,
                   invokeLog, toolInputs, toolOutcome, raisedAt, returned>>
    /\ UNCHANGED sideVars

(***************************************************************************)
(* runAgentStream.                                                         *)
(***************************************************************************)
runAgentStream_start ==
    /\ pc = "start"
    /\ mode = "thinking"
    /\ Emit(<<AgentTok(ThinkOpenToken), AgentTok(<<"Analyzing user intent...">>)>>)
    /\ invokeLog' = Append(invokeLog, classifyMessages(query, history))
    /\ pc' = "classify"
    /\ UNCHANGED <<lanceVars, turnInputs, intent, refinedQuery, searchResult, genKind,
                   streamLog, toolInputs, toolOutcome, raisedAt, returned, genContext,
                   genCount>>
    /\ UNCHANGED sideVars

IntentToken(label) == AgentTok(<<" Intent identified: ", label, ".">>)

\* model.invoke of classifyIntent returns; the turn runs on to its next await.
classifyReturn ==
    /\ pc = "classify"
    /\ \E t \in RouterTexts :
        LET label == classifyIntent(InvokeResult(t), query)
        IN /\ intent' = label
           /\ CASE Branch(label) = "greeting" ->
                    /\ Emit(<<IntentToken(label),
                              AgentTok(<<" User is greeting. Preparing response...">>),
                              AgentTok(ThinkCloseToken)>>)
                    /\ StartStream("greeting", greetingMessages(query))
                    /\ UNCHANGED invokeLog
                [] Branch(label) = "refusal" ->
                    /\ Emit(<<IntentToken(label),
                              AgentTok(<<" User is off-topic. Refusing...">>),
                              AgentTok(ThinkCloseToken)>>)
                    /\ StartStream("refusal", refusalMessages(query))
                    /\ UNCHANGED invokeLog
                [] OTHER ->
                    /\ Emit(<<IntentToken(label),
                              AgentTok(<<" Refining search query...">>)>>)
                    /\ invokeLog' = Append(invokeLog, searchQueryMessages(query, history))
                    /\ pc' = "refine"
                    /\ UNCHANGED <<streamLog, genKind, genCount>>
    /\ UNCHANGED <<lanceVars, turnInputs, refinedQuery, searchResult, toolInputs,
                   toolOutcome, raisedAt, returned, genContext>>
    /\ UNCHANGED sideVars

\* model.invoke of classifyIntent raises: classifyIntent has no handler and
\* runAgentStream calls it before its try block, so the promise rejects.
classifyThrow ==
    /\ pc = "classify"
    /\ raisedAt' = "classify"
    /\ returned' = "thrown"
    /\ pc' = "thrown"
    /\ UNCHANGED <<lanceVars, turnInputs, sink, intent, refinedQuery, searchResult,
                   genKind, invokeLog, streamLog, toolInputs, toolOutcome, genContext,
                   genCount>>
    /\ UNCHANGED sideVars

\* The catch block of runAgentStream.
CatchTokens ==
    <<AgentTok(<<" Error processing request.">>), AgentTok(ThinkCloseToken),
      AgentTok(ApologyToken)>>

refineReturn ==
    /\ pc = "refine"
    /\ \E t \in RefinerTexts :
        LET refined == generateSearchQuery(InvokeResult(t), query)
        IN /\ refinedQuery' = refined
           /\ Emit(<<AgentTok(<<" Query: \"">> \o refined \o <<"\"...">>),
                     AgentTok(<<" Searching...">>)>>)
           /\ CallTool(refined)
    /\ UNCHANGED <<lanceVars, turnInputs, intent, genKind, invokeLog, streamLog,
                   raisedAt, returned, genContext, genCount>>
    /\ UNCHANGED sideVars

\* model.invoke of generateSearchQuery raises inside the try block.
refineThrow ==
    /\ pc = "refine"
    /\ raisedAt' = "refine"
    /\ Emit(CatchTokens)
    /\ returned' = "apology"
    /\ pc' = "error"
    /\ UNCHANGED <<lanceVars, turnInputs, intent, refinedQuery, searchResult, genKind,
                   invokeLog, streamLog, toolInputs, toolOutcome, genContext, genCount>>
    /\ UNCHANGED sideVars

runAgentStream_afterTool ==
    /\ pc = "toolDone"
    /\ mode = "thinking"
    /\ IF IsNoContext(searchResult)
       THEN /\ Emit(<<AgentTok(<<" No relevant info found.">>), AgentTok(ThinkCloseToken)>>)
            /\ streamResponse(query, <<>>)
       ELSE /\ Emit(<<AgentTok(<<" Found relevant information.">>), AgentTok(ThinkCloseToken)>>)
            /\ streamResponse(query, searchResult)
    /\ UNCHANGED <<lanceVars, turnInputs, intent, refinedQuery, searchResult, invokeLog,
                   toolInputs, toolOutcome, raisedAt, returned>>
    /\ UNCHANGED sideVars

(***************************************************************************)
(* The awaits inside KnowledgeBaseTool._call: generateEmbedding and        *)
(* table.search.  A raise of either is caught by _call (tools.ts 44-46).   *)
(***************************************************************************)
embedReturn ==
    /\ pc = "embed"
    /\ pc' = "search"
    /\ UNCHANGED <<lanceVars, turnInputs, sink, intent, refinedQuery, searchResult,
                   genKind, invokeLog, streamLog, toolInputs, toolOutcome, raisedAt,
                   returned, genContext, genCount>>
    /\ UNCHANGED sideVars

embedThrow ==
    /\ pc = "embed"
    /\ \E e \in ServiceErrors : searchResult' = ErrorMsg(e)
    /\ toolOutcome' = "embedError"
    /\ pc' = "toolDone"
    /\ UNCHANGED <<lanceVars, turnInputs, sink, intent, refinedQuery, genKind,
                   invokeLog, streamLog, toolInputs, raisedAt, returned, genContext,
                   genCount>>
    /\ UNCHANGED sideVars

searchReturn ==
    /\ pc = "search"
    /\ \E c \in Candidates(getKnowledgeConfig.maxDocuments) :
        LET results == queryDocuments(c, getKnowledgeConfig.similarityThreshold)
        IN /\ searchResult' = FormatResults(results)
           /\ toolOutcome' = IF Len(results) = 0 THEN "empty" ELSE "found"
    /\ pc' = "toolDone"
    /\ UNCHANGED <<lanceVars, turnInputs, sink, intent, refinedQuery, genKind,
                   invokeLog, streamLog, toolInputs, raisedAt, returned, genContext,
                   genCount>>
    /\ UNCHANGED sideVars

searchThrow ==
    /\ pc = "search"
    /\ \E e \in ServiceErrors : searchResult' = ErrorMsg(e)
    /\ toolOutcome' = "searchError"
    /\ pc' = "toolDone"
    /\ UNCHANGED <<lanceVars, turnInputs, sink, intent, refinedQuery, genKind,
                   invokeLog, streamLog, toolInputs, raisedAt, returned, genContext,
                   genCount>>
    /\ UNCHANGED sideVars

(***************************************************************************)
(* The for-await loop of generateGreeting, generateRefusal, streamResponse.*)
(***************************************************************************)
genToken ==
    /\ pc = "gen"
    /\ genCount < MaxGenTokens
    /\ \E t \in GenTokens : Emit(<<ModelTok(t)>>)
    /\ genCount' = genCount + 1
    /\ UNCHANGED <<lanceVars, turnInputs, pc, intent, refinedQuery, searchResult,
                   genKind, invokeLog, streamLog, toolInputs, toolOutcome, raisedAt,
                   returned, genContext>>
    /\ UNCHANGED sideVars

genEnd ==
    /\ pc = "gen"
    /\ returned' = "value"
    /\ pc' = "done"
    /\ UNCHANGED <<lanceVars, turnInputs, sink, intent, refinedQuery, searchResult,
                   genKind, invokeLog, streamLog, toolInputs, toolOutcome, raisedAt,
                   genContext, genCount>>
    /\ UNCHANGED sideVars

\* model.stream or its iteration raises: the catch block of the entry point.
genThrow ==
    /\ pc = "gen"
    /\ raisedAt' = "generate"
    /\ IF mode = "thinking" THEN Emit(CatchTokens) ELSE Emit(<<AgentTok(ApologyToken)>>)
    /\ returned' = "apology"
    /\ pc' = "error"
    /\ UNCHANGED <<lanceVars, turnInputs, intent, refinedQuery, searchResult, genKind,
                   invokeLog, streamLog, toolInputs, toolOutcome, genContext, genCount>>
    /\ UNCHANGED sideVars

Next ==
    \/ InitLoadEmbedding
    \/ InitConnect
    \/ InitOpenTable
    \/ runFastStream_start
    \/ runFastStream_afterTool
    \/ runAgentStream_start
    \/ classifyReturn
    \/ classifyThrow
    \/ refineReturn
    \/ refineThrow
    \/ runAgentStream_afterTool
    \/ embedReturn
    \/ embedThrow
    \/ searchReturn
    \/ searchThrow
    \/ genToken
    \/ genEnd
    \/ genThrow

Spec == Init /\ [][Next]_vars

(***************************************************************************)
(* Vocabulary of the properties.                                           *)
(***************************************************************************)
Finished == pc \in {"done", "error", "thrown"}

Count(seq, x) == Cardinality({i \in 1..Len(seq) : seq[i] = x})

ApologyEmitted == \E i \in 1..Len(sink) : sink[i] = AgentTok(ApologyToken)

HasMarker(text) == Includes(text, <<OPEN_MARKER>>) \/ Includes(text, <<CLOSE_MARKER>>)

Emitted(text) == \E i \in 1..Len(sink) : sink[i] = AgentTok(text)

ClosePositions == {i \in 1..Len(sink) : sink[i] = AgentTok(ThinkCloseToken)}

(***************************************************************************)
(* C1.  classifyIntent returns KNOWLEDGE for every query that contains an  *)
(* in-domain keyword, whatever text the model produced (GREETING included).*)
(* The code tests the model text for GREETING before it looks at the query.*)
(***************************************************************************)
C1_KeywordAlwaysKnowledge ==
    (intent # "" /\ HasKeyword(query)) => intent = "KNOWLEDGE"

(***************************************************************************)
(* C2.  When the model call of classifyIntent raises, classifyIntent still *)
(* returns a label: KNOWLEDGE for a keyword query, OFF_TOPIC otherwise.    *)
(* The code has no handler around model.invoke: no label is returned.      *)
(***************************************************************************)
C2_ClassifyNeverFails ==
    raisedAt = "classify" =>
        intent = (IF HasKeyword(query) THEN "KNOWLEDGE" ELSE "OFF_TOPIC")

(***************************************************************************)
(* C3.  In a thinking-mode turn a raise in any state is caught: the turn   *)
(* returns normally and the apology is emitted exactly once, as the last   *)
(* token.  A raise during classification escapes runAgentStream.           *)
(***************************************************************************)
C3_AnyFailureCaught ==
    (mode = "thinking" /\ raisedAt # "none") =>
        /\ returned = "apology"
        /\ Count(sink, AgentTok(ApologyToken)) = 1
        /\ sink[Len(sink)] = AgentTok(ApologyToken)

(***************************************************************************)
(* C4.  When the model call of generateSearchQuery raises, the refiner     *)
(* returns the original query, the turn goes on to retrieval, no apology   *)
(* is emitted and the turn does not end in ERROR.  The code lets the raise *)
(* reach the catch block of runAgentStream.                                *)
(***************************************************************************)
C4_RefineFailureNotFatal ==
    raisedAt = "refine" =>
        /\ refinedQuery = query
        /\ toolInputs = <<query>>
        /\ ~ApologyEmitted
        /\ pc # "error"

(***************************************************************************)
(* C5.  In every finished thinking-mode turn the sink holds the open       *)
(* marker exactly once, as the first token, and the close marker exactly   *)
(* once, after every reasoning update and before the first answer or       *)
(* apology token.  The catch block emits a reasoning update and a second   *)
(* close marker after the first, and a raise in classification leaves the  *)
(* trace unclosed.                                                         *)
(***************************************************************************)
C5_MarkersDelimitTrace ==
    (mode = "thinking" /\ Finished) =>
        /\ Len(sink) >= 1
        /\ sink[1] = AgentTok(ThinkOpenToken)
        /\ Count(sink, AgentTok(ThinkOpenToken)) = 1
        /\ Cardinality(ClosePositions) = 1
        /\ \A c \in ClosePositions : \A i \in 1..Len(sink) :
              /\ i < c => sink[i].src = "agent" /\ sink[i].text # ApologyToken
              /\ i > c => sink[i].src = "model" \/ sink[i].text = ApologyToken

(***************************************************************************)
(* C6.  In a thinking-mode turn whose intent is GREETING or OFF_TOPIC the  *)
(* knowledge tool and the query refiner are never called: the only invoke  *)
(* is the classification, and the only stream is the greeting or refusal   *)
(* step, whose messages are its prompt and the raw query.                  *)
(***************************************************************************)
C6_NoRetrievalForGreetingOrOffTopic ==
    intent \in {"GREETING", "OFF_TOPIC"} =>
        /\ toolInputs = <<>>
        /\ toolOutcome = "none"
        /\ invokeLog = <<classifyMessages(query, history)>>
        /\ refinedQuery = <<>>
        /\ genContext = <<>>
        /\ pc \in {"gen", "done", "error"}
        /\ genKind = (IF intent = "GREETING" THEN "greeting" ELSE "refusal")
        /\ streamLog = << <<SystemMessage(IF intent = "GREETING" THEN GREETING_PROMPT
                                         ELSE REFUSE_PROMPT),
                            HumanMessage(query)>> >>

W_C6_OffTopicTurnDone ==
    /\ intent = "OFF_TOPIC"
    /\ pc = "done"
    /\ genCount > 0
    /\ db /\ table

(***************************************************************************)
(* C7.  When the vector store is not ready, a KNOWLEDGE or fast-mode turn  *)
(* gives generation an empty context, and a thinking turn reports that no  *)
(* relevant information was found.  The code passes the tool's not-ready   *)
(* message on as the context and reports that information was found.       *)
(***************************************************************************)
C7_NotReadyDegradesToNoContext ==
    (toolOutcome = "notReady" /\ pc \in {"gen", "done", "error"}) =>
        /\ genContext = <<>>
        /\ mode = "thinking" => Emitted(<<" No relevant info found.">>)

(***************************************************************************)
(* C8.  An embedding or search failure during retrieval does not abort the *)
(* turn: the tool returns the failure as its result, the orchestrator goes *)
(* on to streamResponse with an empty context, and an apology is emitted   *)
(* only if the generation step itself raises.                              *)
(***************************************************************************)
C8_RetrievalFailureNotFatal ==
    toolOutcome \in {"embedError", "searchError"} =>
        /\ StartsWith(searchResult, <<"Error">>)
        /\ returned # "thrown"
        /\ pc \in {"toolDone", "gen", "done", "error"}
        /\ pc # "toolDone" =>
              /\ genKind = "response"
              /\ genContext = <<>>
              /\ streamLog = <<streamResponseMessages(query, <<>>)>>
              /\ mode = "thinking" => Emitted(<<" No relevant info found.">>)
        /\ ApologyEmitted => raisedAt = "generate"
        /\ pc = "error" => raisedAt = "generate"

W_C8_EmbedFailureTurnDone ==
    /\ toolOutcome = "embedError"
    /\ mode = "thinking"
    /\ pc = "done"
    /\ genCount > 0
    /\ ~ApologyEmitted

(***************************************************************************)
(* C9.  A KNOWLEDGE turn whose retrieval returns zero results still        *)
(* reaches the generation step, with streamResponse given the empty        *)
(* context, and finishes without the apology: it ends normally whenever    *)
(* the generation stream ends, and an apology appears only when the        *)
(* generation call itself raised.                                          *)
(***************************************************************************)
C9_ZeroResultsStillGenerates ==
    (intent = "KNOWLEDGE" /\ toolOutcome \in {"empty", "noTable"}) =>
        /\ pc \in {"toolDone", "gen", "done", "error"}
        /\ pc # "toolDone" =>
              /\ genKind = "response"
              /\ genContext = <<>>
              /\ streamLog = <<streamResponseMessages(query, <<>>)>>
        /\ pc = "done" => returned = "value" /\ ~ApologyEmitted
        /\ (pc = "error" \/ ApologyEmitted) => raisedAt = "generate"

W_C9_ZeroResultsTurnDone ==
    /\ intent = "KNOWLEDGE"
    /\ toolOutcome = "empty"
    /\ pc = "done"
    /\ genCount > 0
    /\ ~ApologyEmitted

(***************************************************************************)
(* C10.  A fast-mode turn never calls the intent classifier or the query   *)
(* refiner (no model.invoke at all), gives the raw query unchanged to the  *)
(* knowledge tool, and emits no token of its own that holds a think marker.*)
(***************************************************************************)
C10_FastModeSkipsRouting ==
    mode = "fast" =>
        /\ invokeLog = <<>>
        /\ intent = ""
        /\ refinedQuery = <<>>
        /\ pc # "start" => toolInputs = <<query>>
        /\ \A i \in 1..Len(sink) : sink[i].src = "agent" => ~HasMarker(sink[i].text)

W_C10_FastTurnDone ==
    /\ mode = "fast"
    /\ pc = "done"
    /\ toolOutcome = "found"
    /\ genCount > 0

(***************************************************************************)
(* C12.  The context string that a KNOWLEDGE or fast-mode turn gives to    *)
(* streamResponse is never longer than the configured maxContextLength.    *)
(* KnowledgeBaseTool._call joins every result block and never reads        *)
(* maxContextLength.                                                       *)
(***************************************************************************)
C12_ContextWithinBudget ==
    genKind = "response" => StrLen(genContext) <= knowledgeConfig.maxContextLength

(***************************************************************************)
(* parseThinkContent (client/src/utils/parseThink.ts).  The raw text is a  *)
(* sequence of characters; positions are 0-based as in the source.         *)
(***************************************************************************)
MaxChunks == 4

THINK_OPEN == <<"<", "t", "h", "i", "n", "k", ">">>
THINK_CLOSE == <<"<", "/", "t", "h", "i", "n", "k", ">">>

Min(a, b) == IF a <= b THEN a ELSE b

\* String.prototype.slice(from, to) for 0 <= from
Slice(s, from, to) == SubSeq(s, from + 1, Min(to, Len(s)))

\* the positions at or after from where pat occurs
Occurrences(s, pat, from) ==
    {k \in from..(Len(s) - Len(pat)) : Slice(s, k, k + Len(pat)) = pat}

\* String.prototype.indexOf(pat, from)
IndexOf(s, pat, from) ==
    LET occ == Occurrences(s, pat, from)
    IN  IF occ = {} THEN -1 ELSE CHOOSE k \in occ : \A j \in occ : k <= j

\* String.prototype.lastIndexOf(pat)
LastIndexOf(s, pat) ==
    LET occ == Occurrences(s, pat, 0)
    IN  IF occ = {} THEN -1 ELSE CHOOSE k \in occ : \A j \in occ : k >= j

\* variants of the steps below that differ from the source
FindCloseLast(raw, i) ==
    LET k == LastIndexOf(raw, THINK_CLOSE) IN IF k >= i THEN k ELSE -1

SkipCloseShort(closeIdx) == closeIdx + Len(THINK_OPEN)

IsInsideThinkNoClose(raw) ==
    LastIndexOf(raw, THINK_OPEN) # -1 /\ LastIndexOf(raw, THINK_CLOSE) = -1

\* const closeIdx = raw.indexOf(THINK_CLOSE, i)
FindClose(raw, i) == IndexOf(raw, THINK_CLOSE, i)

\* i = closeIdx + THINK_CLOSE.length
SkipClose(closeIdx) == closeIdx + Len(THINK_CLOSE)

\* the while loop; endedInside records that it left through the branch
\* closeIdx === -1
RECURSIVE ScanThink(_, _, _, _)
ScanThink(raw, i, response, thinkingParts) ==
    IF i >= Len(raw)
    THEN [response |-> response, thinkingParts |-> thinkingParts,
          currentThink |-> <<>>, endedInside |-> FALSE]
    ELSE IF Slice(raw, i, i + Len(THINK_OPEN)) = THINK_OPEN
    THEN LET j == i + Len(THINK_OPEN)
             closeIdx == FindClose(raw, j)
         IN  IF closeIdx = -1
             THEN [response |-> response, thinkingParts |-> thinkingParts,
                   currentThink |-> Slice(raw, j, Len(raw)),
                   endedInside |-> TRUE]
             ELSE ScanThink(raw, SkipClose(closeIdx), response,
                            Append(thinkingParts, Slice(raw, j, closeIdx)))
    ELSE LET nextOpen == IndexOf(raw, THINK_OPEN, i)
         IN  IF nextOpen = -1
             THEN [response |-> response \o Slice(raw, i, Len(raw)),
                   thinkingParts |-> thinkingParts,
                   currentThink |-> <<>>, endedInside |-> FALSE]
             ELSE ScanThink(raw, nextOpen,
                            response \o Slice(raw, i, nextOpen), thinkingParts)

\* if (currentThink.length > 0) thinkingParts.push(currentThink)
FlushCurrent(thinkingParts, currentThink) ==
    IF Len(currentThink) > 0 THEN Append(thinkingParts, currentThink)
    ELSE thinkingParts

\* lastOpen !== -1 && (lastClose === -1 || lastOpen > lastClose)
IsInsideThink(raw) ==
    LET lastOpen == LastIndexOf(raw, THINK_OPEN)
        lastClose == LastIndexOf(raw, THINK_CLOSE)
    IN  lastOpen # -1 /\ (lastClose = -1 \/ lastOpen > lastClose)

parseThinkContent(raw) ==
    LET r == ScanThink(raw, 0, <<>>, <<>>)
    IN  [response |-> Trim(r.response),
         thinkingParts |-> FlushCurrent(r.thinkingParts, r.currentThink),
         isInsideThink |-> IsInsideThink(raw),
         currentThink |-> r.currentThink,
         endedInside |-> r.endedInside]

\* MessageBubble.tsx 62-65
hasThinkContent(thinkingParts) ==
    \E k \in 1..Len(thinkingParts) : Len(Trim(thinkingParts[k])) > 0

showThinkUI(parsed) == parsed.isInsideThink \/ hasThinkContent(parsed.thinkingParts)

(***************************************************************************)
(* The streaming message of ChatView: each chunk is appended to the        *)
(* message content, and MessageBubble parses the whole content again.      *)
(***************************************************************************)
ChunkTexts ==
    { THINK_OPEN, THINK_CLOSE, <<"a">>, <<" ">>,
      <<"<", "t", "h", "i">>, <<"n", "k", ">">> }

\* no turn in progress on the server
TurnParked ==
    /\ mode = "fast"
    /\ query = Q_hello
    /\ history = <<>>
    /\ pc = "start"
    /\ sink = <<>>
    /\ intent = ""
    /\ refinedQuery = <<>>
    /\ searchResult = <<>>
    /\ genKind = "none"
    /\ invokeLog = <<>>
    /\ streamLog = <<>>
    /\ toolInputs = <<>>
    /\ toolOutcome = "none"
    /\ raisedAt = "none"
    /\ returned = "pending"
    /\ genContext = <<>>
    /\ genCount = 0

InitParser ==
    /\ TurnParked
    /\ knowledgeConfig = [maxDocuments |-> 3, similarityThreshold |-> 140,
                          maxContextLength |-> 2000]
    /\ db = FALSE
    /\ table = FALSE
    /\ embeddingPipeline = FALSE
    /\ pt = PtIdle
    /\ rag = RagIdle
    /\ conc = ConcIdle
    /\ StoresIdle

onChunk ==
    /\ pt.chunks < MaxChunks
    /\ \E chunk \in ChunkTexts :
          pt' = [raw |-> pt.raw \o chunk,
                 chunks |-> pt.chunks + 1,
                 cur |-> parseThinkContent(pt.raw \o chunk),
                 prev |-> pt.cur]
    /\ UNCHANGED <<turnVars, rag, conc, storeVars>>

NextParser == onChunk

SpecParser == InitParser /\ [][NextParser]_vars

(***************************************************************************)
(* Vocabulary of the parser properties, computed from the marker positions *)
(* of the text and not from the scan.                                      *)
(***************************************************************************)
OpenPos(raw) == Occurrences(raw, THINK_OPEN, 0)
ClosePos(raw) == Occurrences(raw, THINK_CLOSE, 0)
MarkerPos(raw) == OpenPos(raw) \cup ClosePos(raw)

\* the first close marker after the open marker at p (-1 if none)
CloseOf(raw, p) == IndexOf(raw, THINK_CLOSE, p + Len(THINK_OPEN))

\* markers alternate open, close, open, close: every open marker is
\* followed by a close marker before any other marker, and every close
\* marker is preceded by an open marker with no marker in between
Balanced(raw) ==
    /\ \A p \in OpenPos(raw) :
          \E c \in ClosePos(raw) :
             c > p /\ \A m \in MarkerPos(raw) : ~(p < m /\ m < c)
    /\ \A c \in ClosePos(raw) :
          \E p \in OpenPos(raw) :
             p < c /\ \A m \in MarkerPos(raw) : ~(p < m /\ m < c)

\* position k lies in a marker pair (markers included)
InPair(raw, k) ==
    \E p \in OpenPos(raw) :
       p <= k /\ CloseOf(raw, p) # -1 /\ k < CloseOf(raw, p) + Len(THINK_CLOSE)

RECURSIVE OutsideFrom(_, _)
OutsideFrom(raw, k) ==
    IF k >= Len(raw) THEN <<>>
    ELSE (IF InPair(raw, k) THEN <<>> ELSE <<raw[k + 1]>>) \o OutsideFrom(raw, k + 1)

\* the portions of a balanced text outside marker pairs, in order
OutsideConcat(raw) == OutsideFrom(raw, 0)

RECURSIVE SortedSeq(_)
SortedSeq(S) ==
    IF S = {} THEN <<>>
    ELSE LET m == CHOOSE x \in S : \A y \in S : x <= y
         IN  <<m>> \o SortedSeq(S \ {m})

\* the texts between the markers of each pair of a balanced text, in
\* document order
ClosedSegments(raw) ==
    LET opens == SortedSeq(OpenPos(raw))
    IN  [k \in 1..Len(opens) |->
            Slice(raw, opens[k] + Len(THINK_OPEN), CloseOf(raw, opens[k]))]

\* the text is a balanced text followed by an open marker at p that no
\* close marker follows
UnterminatedAt(raw, p) ==
    /\ p \in OpenPos(raw)
    /\ Balanced(Slice(raw, 0, p))
    /\ \A c \in ClosePos(raw) : c < p

IsPrefix(s, t) == Len(s) <= Len(t) /\ SubSeq(t, 1, Len(s)) = s

\* the segments of a parse result that a close marker finalized
Finalized(parsed) ==
    IF Len(parsed.currentThink) > 0
    THEN SubSeq(parsed.thinkingParts, 1, Len(parsed.thinkingParts) - 1)
    ELSE parsed.thinkingParts

(***************************************************************************)
(* C15.  For a text with balanced markers the visible answer is exactly    *)
(* the concatenation of the portions outside marker pairs, leading and     *)
(* trailing whitespace included (as stated).                               *)
(***************************************************************************)
C15_VisibleIsOutsideExactly ==
    Balanced(pt.raw) => pt.cur.response = OutsideConcat(pt.raw)

(***************************************************************************)
(* C15, amended.  For a text with balanced markers the visible answer is   *)
(* the concatenation of the portions outside marker pairs with the         *)
(* whitespace at its two ends removed (response.trim()).                   *)
(***************************************************************************)
C15_VisibleIsOutsideTrimmed ==
    Balanced(pt.raw) => pt.cur.response = Trim(OutsideConcat(pt.raw))

W_C15_TrimmedAroundPair ==
    /\ pt.raw = <<" ">> \o THINK_OPEN \o <<"a">> \o THINK_CLOSE
    /\ pt.cur.response = <<>>

(***************************************************************************)
(* C16.  For a text with balanced markers the reasoning segments are the   *)
(* texts of the closed marker pairs, one per pair, in document order.      *)
(***************************************************************************)
C16_SegmentsAreClosedPairs ==
    Balanced(pt.raw) =>
        /\ Len(pt.cur.thinkingParts) = Cardinality(ClosePos(pt.raw))
        /\ pt.cur.thinkingParts = ClosedSegments(pt.raw)

W_C16_TwoPairs ==
    /\ Balanced(pt.raw)
    /\ Cardinality(ClosePos(pt.raw)) = 2
    /\ Len(pt.cur.thinkingParts) = 2

(***************************************************************************)
(* C17.  For a buffer that ends inside an unterminated open marker,        *)
(* isInsideThink is true and the trailing partial segment is not put into  *)
(* thinkingParts: the list holds the closed segments only.                 *)
(***************************************************************************)
C17_PartialNotFinalized ==
    \A p \in OpenPos(pt.raw) :
       UnterminatedAt(pt.raw, p) =>
          /\ pt.cur.isInsideThink
          /\ pt.cur.thinkingParts = ClosedSegments(Slice(pt.raw, 0, p))

(***************************************************************************)
(* C18.  isInsideThink, computed from lastIndexOf of the two markers, is   *)
(* true exactly when the scan left the loop inside an open marker that no  *)
(* close marker follows.                                                   *)
(***************************************************************************)
C18_FlagAgreesWithScan == pt.cur.isInsideThink = pt.cur.endedInside

W_C18_OpenAfterClosedPair ==
    /\ ClosePos(pt.raw) # {}
    /\ pt.cur.endedInside
    /\ pt.cur.isInsideThink

(***************************************************************************)
(* C19.  An empty reasoning segment (open marker immediately followed by   *)
(* close marker) is kept as an empty entry of thinkingParts, and its       *)
(* presence is enough for MessageBubble to show the reasoning UI.          *)
(***************************************************************************)
C19_EmptySegmentShown ==
    (/\ Balanced(pt.raw)
     /\ \E p \in OpenPos(pt.raw) : p + Len(THINK_OPEN) \in ClosePos(pt.raw))
    => /\ \E k \in 1..Len(pt.cur.thinkingParts) : pt.cur.thinkingParts[k] = <<>>
       /\ showThinkUI(pt.cur)

(***************************************************************************)
(* C20.  When a chunk is appended to the buffer, the visible answer of the *)
(* shorter buffer is a prefix of the visible answer of the longer one, and *)
(* every finalized segment of the shorter buffer is a finalized segment of *)
(* the longer one at the same position.                                    *)
(***************************************************************************)
C20_GrowthNeverRetracts ==
    pt.chunks > 0 =>
        /\ IsPrefix(pt.prev.response, pt.cur.response)
        /\ IsPrefix(Finalized(pt.prev), Finalized(pt.cur))

(***************************************************************************)
(* buildRAGPrompt (server/src/db/sqlite.ts 247-324), one action per await. *)
(***************************************************************************)
RagConfigs ==
    Configs \cup
    { [maxDocuments |-> d, similarityThreshold |-> t, maxContextLength |-> b] :
        d \in {1, 2}, t \in {0, 100}, b \in {100, 150} }

RagSeparator == <<"\n\n---\n\n">>

\* const title = result.metadata?.title || "Untitled"
RagTitle(result) == IF result.title # <<>> THEN result.title ELSE <<"Untitled">>

\* const candidatePart = `[${title}]\n${result.text}`
RagBlock(result) == <<"[">> \o RagTitle(result) \o <<"]\n">> \o result.text

RagSource(result) ==
    [id |-> result.id, title |-> RagTitle(result), similarity |-> result.score]

RECURSIVE AssembleLoop(_, _, _, _, _)

\* variants of the steps below that differ from the source
OverflowsAlone(potentialContext, candidatePart, budget) ==
    StrLen(candidatePart) > budget

AfterOverflowContinue(results, k, contextParts, sources, budget) ==
    AssembleLoop(results, k + 1, contextParts, sources, budget)

\* if (potentialContext.length > config.maxContextLength)
Overflows(potentialContext, candidatePart, budget) ==
    StrLen(potentialContext) > budget

\* break
AfterOverflow(results, k, contextParts, sources, budget) ==
    [contextParts |-> contextParts, sources |-> sources]

\* for (const result of results) { ... }
AssembleLoop(results, k, contextParts, sources, budget) ==
    IF k > Len(results)
    THEN [contextParts |-> contextParts, sources |-> sources]
    ELSE LET candidatePart == RagBlock(results[k])
             potentialContext == Join(Append(contextParts, candidatePart), RagSeparator)
         IN  IF Overflows(potentialContext, candidatePart, budget)
             THEN AfterOverflow(results, k, contextParts, sources, budget)
             ELSE AssembleLoop(results, k + 1,
                               Append(contextParts, candidatePart),
                               Append(sources, RagSource(results[k])), budget)

\* the body of `if (isLanceReady()) { ... }` once queryDocuments returned
Assemble(results, budget) ==
    IF Len(results) > 0
    THEN LET r == AssembleLoop(results, 1, <<>>, <<>>, budget)
         IN  [contextStr |-> Join(r.contextParts, RagSeparator), sources |-> r.sources]
    ELSE [contextStr |-> <<>>, sources |-> <<>>]

InitRag ==
    /\ TurnParked
    /\ knowledgeConfig \in RagConfigs
    /\ db \in BOOLEAN
    /\ table \in BOOLEAN
    /\ embeddingPipeline = TRUE
    /\ pt = PtIdle
    /\ rag = RagIdle
    /\ conc = ConcIdle
    /\ StoresIdle

\* up to the await of queryDocuments; isLanceReady() is db !== null, and
\* queryDocuments returns [] at once when table is null
buildRAGPrompt_start ==
    /\ rag.pc = "idle"
    /\ rag' = IF ~db THEN [rag EXCEPT !.pc = "done"]
              ELSE IF ~table THEN [rag EXCEPT !.pc = "done", !.results = <<>>]
              ELSE [rag EXCEPT !.pc = "query"]
    /\ UNCHANGED <<turnVars, pt, conc, storeVars>>

\* queryDocuments resolves; the loop and the join run to the return
buildRAGPrompt_afterQuery ==
    /\ rag.pc = "query"
    /\ \E cands \in Candidates(getKnowledgeConfig.maxDocuments) :
          LET results == queryDocuments(cands, getKnowledgeConfig.similarityThreshold)
              out == Assemble(results, getKnowledgeConfig.maxContextLength)
          IN  rag' = [pc |-> "done", results |-> results,
                      contextStr |-> out.contextStr, sources |-> out.sources]
    /\ UNCHANGED <<turnVars, pt, conc, storeVars>>

\* queryDocuments rejects; buildRAGPrompt has no catch
buildRAGPrompt_queryThrow ==
    /\ rag.pc = "query"
    /\ rag' = [rag EXCEPT !.pc = "thrown"]
    /\ UNCHANGED <<turnVars, pt, conc, storeVars>>

NextRag ==
    \/ buildRAGPrompt_start
    \/ buildRAGPrompt_afterQuery
    \/ buildRAGPrompt_queryThrow

SpecRag == InitRag /\ [][NextRag]_vars

\* the first n blocks of the ranked results, joined
JoinedPrefix(results, n) ==
    Join([k \in 1..n |-> RagBlock(results[k])], RagSeparator)

(***************************************************************************)
(* C13.  The context string returned by buildRAGPrompt is at most          *)
(* maxContextLength long, and it is empty exactly when the result list is  *)
(* empty or the first block alone is longer than maxContextLength.         *)
(***************************************************************************)
C13_ContextWithinBudgetOrEmpty ==
    rag.pc = "done" =>
        /\ StrLen(rag.contextStr) <= knowledgeConfig.maxContextLength
        /\ (rag.contextStr = <<>>) <=>
              \/ rag.results = <<>>
              \/ StrLen(RagBlock(rag.results[1])) > knowledgeConfig.maxContextLength

W_C13_SecondBlockOverflows ==
    /\ rag.pc = "done"
    /\ Len(rag.results) = 2
    /\ rag.contextStr = RagBlock(rag.results[1])
    /\ StrLen(JoinedPrefix(rag.results, 2)) > knowledgeConfig.maxContextLength

(***************************************************************************)
(* C14.  buildRAGPrompt includes a prefix of the ranked results: the       *)
(* context is the join of the first n blocks, whole; block n+1, if there   *)
(* is one, would make the join longer than the budget; and the sources are *)
(* the first n results in rank order, one per block.                       *)
(***************************************************************************)
C14_IncludesPrefixOfRanked ==
    rag.pc = "done" =>
        \E n \in 0..Len(rag.results) :
           /\ rag.contextStr = JoinedPrefix(rag.results, n)
           /\ rag.sources = [k \in 1..n |-> RagSource(rag.results[k])]
           /\ \A m \in 1..n :
                 StrLen(JoinedPrefix(rag.results, m)) <= knowledgeConfig.maxContextLength
           /\ n < Len(rag.results) =>
                 StrLen(JoinedPrefix(rag.results, n + 1)) > knowledgeConfig.maxContextLength

W_C14_LaterBlockWouldFit ==
    /\ rag.pc = "done"
    /\ Len(rag.results) = 2
    /\ rag.sources = <<>>
    /\ StrLen(RagBlock(rag.results[2])) <= knowledgeConfig.maxContextLength

(***************************************************************************)
(* Concurrent requests to POST /api/chat/stream.  Each request runs one    *)
(* turn of the shared agentService; every model.invoke and model.stream    *)
(* of the turn goes through getInstance() and then calls the pipeline      *)
(* (part_002 40-43, 71-100).  conc.pc[t] is the await request t is at,     *)
(* conc.left[t] the pipeline calls its turn has still to make.             *)
(***************************************************************************)
NumTurns == 2

Turns == 1..NumTurns

\* pipeline calls of one turn: fast (stream), GREETING or OFF_TOPIC
\* (invoke, stream), KNOWLEDGE (invoke, invoke, stream)
CallsOfTurn == {1, 2, 3}

InitConc ==
    /\ TurnParked
    /\ knowledgeConfig = [maxDocuments |-> 3, similarityThreshold |-> 140,
                          maxContextLength |-> 2000]
    /\ db = TRUE
    /\ table = TRUE
    /\ embeddingPipeline = TRUE
    /\ pt = PtIdle
    /\ rag = RagIdle
    /\ conc = [pc |-> [t \in Turns |-> "idle"], left |-> [t \in Turns |-> 0],
               instance |-> FALSE, created |-> 0]
    /\ StoresIdle

\* the route handler starts the turn, which reaches its first
\* `await getInstance()`
postStream ==
    \E t \in Turns, calls \in CallsOfTurn :
       /\ conc.pc[t] = "idle"
       /\ conc' = [conc EXCEPT !.pc[t] = "getInstance", !.left[t] = calls]
       /\ UNCHANGED <<turnVars, pt, rag, storeVars>>

\* getInstance: if (instance) return instance; the caller then calls
\* generator(...)
getInstance_cached ==
    \E t \in Turns :
       /\ conc.pc[t] = "getInstance"
       /\ conc.instance
       /\ conc' = [conc EXCEPT !.pc[t] = "generating"]
       /\ UNCHANGED <<turnVars, pt, rag, storeVars>>

\* getInstance: instance is null, await createPipeline(...)
getInstance_create ==
    \E t \in Turns :
       /\ conc.pc[t] = "getInstance"
       /\ ~conc.instance
       /\ conc' = [conc EXCEPT !.pc[t] = "createPipeline"]
       /\ UNCHANGED <<turnVars, pt, rag, storeVars>>

\* createPipeline resolves: instance = ...; return instance; the caller
\* then calls generator(...)
createPipeline_return ==
    \E t \in Turns :
       /\ conc.pc[t] = "createPipeline"
       /\ conc' = [conc EXCEPT !.pc[t] = "generating", !.instance = TRUE,
                               !.created = conc.created + 1]
       /\ UNCHANGED <<turnVars, pt, rag, storeVars>>

\* generator(...) settles; the turn goes on to its next call or ends
generator_settle ==
    \E t \in Turns :
       /\ conc.pc[t] = "generating"
       /\ conc' = [conc EXCEPT !.left[t] = conc.left[t] - 1,
                               !.pc[t] = IF conc.left[t] = 1 THEN "done"
                                         ELSE "getInstance"]
       /\ UNCHANGED <<turnVars, pt, rag, storeVars>>

NextConc ==
    \/ postStream
    \/ getInstance_cached
    \/ getInstance_create
    \/ createPipeline_return
    \/ generator_settle

SpecConc == InitConc /\ [][NextConc]_vars

\* the requests whose call of the pipeline has not settled
Generating == {t \in Turns : conc.pc[t] = "generating"}

(***************************************************************************)
(* C11.  Concurrent turns are serialized against the generation service:   *)
(* at most one call into the pipeline is in progress at any time.          *)
(***************************************************************************)
C11_OneGenerationAtATime == Cardinality(Generating) <= 1

(***************************************************************************)
(* queryDocuments (lanceClient.ts 162-218) called twice on the same store  *)
(* contents with the same query and limit, with two thresholds.  Distances *)
(* are in tenths, scores and thresholds in units of 1/200.                 *)
(***************************************************************************)
MaxDist == 16

\* minSimilarity values 0, 0.2, 0.5, 0.7, 1
Thresholds == {0, 40, 100, 140, 200}

QueryDocs == {d \in Docs : d.id \in {"a", "b"}}

\* what table.search(v).limit(limit).toArray() returns: distinct records,
\* nearest first, each with a non-negative _distance
QueryCandidates ==
    { c \in SeqsUpTo({[d EXCEPT !.dist = x] : d \in QueryDocs, x \in 0..MaxDist},
                     MaxCandidates) :
        /\ \A i, j \in 1..Len(c) : i < j => c[i].dist <= c[j].dist /\ c[i].id # c[j].id }

InitQuery ==
    /\ TurnParked
    /\ knowledgeConfig = [maxDocuments |-> 3, similarityThreshold |-> 140,
                          maxContextLength |-> 2000]
    /\ db = TRUE
    /\ table = TRUE
    /\ embeddingPipeline = TRUE
    /\ pt = PtIdle
    /\ rag = RagIdle
    /\ conc = ConcIdle
    /\ StoresIdle

\* the first call: table.search resolves with some candidate list
queryDocuments_first ==
    /\ qd.pc = "idle"
    /\ \E cands \in QueryCandidates, minSimilarity \in Thresholds :
          qd' = [pc |-> "first", cands |-> cands, minSimilarity |-> minSimilarity,
                 results |-> queryDocuments(cands, minSimilarity),
                 prevMin |-> 0, prevResults |-> <<>>]
    /\ UNCHANGED <<turnVars, pt, rag, conc, kb, chat, strm, cfgdb, wireVars>>

\* the second call: same query, limit and store contents, so the same
\* candidate list; any threshold
queryDocuments_second ==
    /\ qd.pc = "first"
    /\ \E minSimilarity \in Thresholds :
          qd' = [pc |-> "second", cands |-> qd.cands, minSimilarity |-> minSimilarity,
                 results |-> queryDocuments(qd.cands, minSimilarity),
                 prevMin |-> qd.minSimilarity, prevResults |-> qd.results]
    /\ UNCHANGED <<turnVars, pt, rag, conc, kb, chat, strm, cfgdb, wireVars>>

NextQuery ==
    \/ queryDocuments_first
    \/ queryDocuments_second

SpecQuery == InitQuery /\ [][NextQuery]_vars

\* the candidate a result was made from
CandidateOf(cands, result) == CHOOSE c \in {cands[k] : k \in 1..Len(cands)} : c.id = result.id

RECURSIVE IsSubsequence(_, _)
IsSubsequence(s, t) ==
    IF s = <<>> THEN TRUE
    ELSE IF t = <<>> THEN FALSE
    ELSE IF Head(s) = Head(t) THEN IsSubsequence(Tail(s), Tail(t))
    ELSE IsSubsequence(s, Tail(t))

ResultIds(results) == [k \in 1..Len(results) |-> results[k].id]

(***************************************************************************)
(* C24.  Every score returned by queryDocuments lies in [0,1] (0..200 in   *)
(* the units of the model), and a result with a larger distance never has  *)
(* a larger score.                                                         *)
(***************************************************************************)
C24_ScoreBoundedAndMonotone ==
    qd.pc # "idle" =>
        /\ \A k \in 1..Len(qd.results) :
              qd.results[k].score >= 0 /\ qd.results[k].score <= 200
        /\ \A i, j \in 1..Len(qd.results) :
              CandidateOf(qd.cands, qd.results[i]).dist
                 <= CandidateOf(qd.cands, qd.results[j]).dist
              => qd.results[i].score >= qd.results[j].score

W_C24_ClampedScoreReturned ==
    /\ qd.pc = "first"
    /\ Len(qd.results) = 2
    /\ qd.results[1].score > 0
    /\ qd.results[1].score < 200
    /\ qd.results[2].score = 0
    /\ CandidateOf(qd.cands, qd.results[2]).dist = MaxDist

(***************************************************************************)
(* C25.  With the same candidates, the results for a threshold t2 <= t1    *)
(* contain every result for t1, and the results of both calls are          *)
(* subsequences of the nearest-first candidate list.                       *)
(***************************************************************************)
C25_FilterMonotoneOrderPreserving ==
    /\ qd.pc # "idle" =>
          IsSubsequence(ResultIds(qd.results), ResultIds(qd.cands))
    /\ (qd.pc = "second" /\ qd.minSimilarity <= qd.prevMin) =>
          /\ \A k \in 1..Len(qd.prevResults) :
                \E m \in 1..Len(qd.results) : qd.results[m] = qd.prevResults[k]
          /\ IsSubsequence(qd.prevResults, qd.results)

W_C25_LowerThresholdAddsResult ==
    /\ qd.pc = "second"
    /\ qd.minSimilarity < qd.prevMin
    /\ Len(qd.prevResults) = 1
    /\ Len(qd.results) = 2

(***************************************************************************)
(* The knowledge_base table behind lanceClient.ts and the routes of        *)
(* routes/knowledge.ts.  A row, a metadata object and a request body are   *)
(* functions from field names to values; kb.rows is the table on disk,     *)
(* kb.exists says whether it was created, kb.trip lists the finished       *)
(* calls, kb.lastAdd the arguments of the last addDocument call that       *)
(* resolved for each id still in the store.                                *)
(***************************************************************************)
MaxOps == 4
MaxDocs == 2

\* object spread { ...a, ...b }: the fields of b win
Spread(a, b) ==
    [k \in DOMAIN a \cup DOMAIN b |-> IF k \in DOMAIN b THEN b[k] ELSE a[k]]

\* `...metadata` of a request body that may have no metadata
NoFields == [k \in {} |-> 0]

\* generateEmbedding: a function of the text
Embed(text) == <<"vec">> \o text

\* the record literal of addDocument (lanceClient.ts 113-122)
BuildRecord(id, vector, text, metadata) ==
    Spread(Spread([id |-> id, vector |-> vector, text |-> text], metadata),
           [title |-> metadata.title, created_at |-> metadata.created_at,
            updated_at |-> metadata.updated_at])

\* table.delete(`id = '${id}'`)
DeleteRows(rows, id) == SelectSeq(rows, LAMBDA r : r.id # id)

\* getDocumentById: the first row with the id, with its metadata object
NoDoc == [found |-> FALSE]

getDocumentById(id) ==
    IF ~table THEN NoDoc
    ELSE LET results == SelectSeq(kb.rows, LAMBDA r : r.id = id)
         IN  IF Len(results) = 0 THEN NoDoc
             ELSE LET r == results[1]
                  IN  [found |-> TRUE, id |-> r.id, text |-> r.text,
                       metadata |-> Spread([title |-> r.title,
                                            created_at |-> r.created_at,
                                            updated_at |-> r.updated_at], r)]

\* `x?.trim() || fallback` on a body field that may be absent
TrimmedOr(body, field, fallback) ==
    IF field \in DOMAIN body /\ Trim(body[field]) # <<>> THEN Trim(body[field])
    ELSE fallback

\* request bodies of POST /ingest and PUT /documents/:id
IngestBodies ==
    { [title |-> <<"Guide">>, content |-> <<"old", " ", "text">>],
      [title |-> <<" ">>, content |-> <<"old", " ", "text">>] }

PutBodies ==
    { [content |-> <<"new", " ", "text">>],
      [title |-> <<"Manual">>] }

\* one entry of kb.trip
Summary(op, id, status) ==
    [op |-> op, id |-> id, status |-> status, content |-> <<>>, sent |-> <<>>,
     created_at |-> 0, updated_at |-> 0, notReady |-> FALSE,
     awaitedInit |-> FALSE, error |-> ""]

Finish(summary) ==
    [kb EXCEPT !.pc = "idle", !.call = NoCall, !.trip = Append(kb.trip, summary)]

\* what is left unchanged by every action on the knowledge_base table
kbFrame ==
    <<mode, query, history, pc, sink, intent, refinedQuery, searchResult,
      genKind, invokeLog, streamLog, toolInputs, toolOutcome, raisedAt,
      returned, genContext, genCount, knowledgeConfig, pt, rag, conc,
      qd, chat, strm, cfgdb, wireVars>>

InitStore ==
    /\ TurnParked
    /\ knowledgeConfig = [maxDocuments |-> 3, similarityThreshold |-> 140,
                          maxContextLength |-> 2000]
    /\ db = FALSE
    /\ table = FALSE
    /\ embeddingPipeline = FALSE
    /\ pt = PtIdle
    /\ rag = RagIdle
    /\ conc = ConcIdle
    /\ StoresIdle

CanStart == kb.pc = "idle" /\ Len(kb.trip) < MaxOps

\* Date.now()
Now == kb.clock + 1

\* the start of an addDocument call made by `route`
StartAdd(route, id, text, metadata, sent) ==
    [kb EXCEPT !.clock = Now,
               !.pc = IF db THEN "embed" ELSE "initLanceDB",
               !.call = [route |-> route, id |-> id, text |-> text,
                         metadata |-> metadata, sent |-> sent, record |-> <<>>,
                         notReady |-> ~db, awaitedInit |-> ~db]]

\* the end of the addDocument call in progress and of the route around it
EndAdd(resolved, error, rows) ==
    LET c == kb.call
        viaRoute == c.route \in {"ingest", "put"}
        status == IF viaRoute THEN (IF resolved THEN "200" ELSE "500")
                  ELSE (IF resolved THEN "resolved" ELSE "rejected")
    IN  [kb EXCEPT
           !.pc = "idle", !.call = NoCall, !.rows = rows,
           !.trip = Append(kb.trip,
                       [Summary(c.route, c.id, status) EXCEPT
                           !.sent = c.sent, !.notReady = c.notReady,
                           !.awaitedInit = c.awaitedInit, !.error = error]),
           !.lastAdd = IF resolved
                       THEN {a \in kb.lastAdd : a.id # c.id}
                            \cup {[id |-> c.id, text |-> c.text, metadata |-> c.metadata]}
                       ELSE kb.lastAdd]

\* index.ts: initLanceDB at startup, before the server listens
startup_initLanceDB ==
    /\ kb.pc = "idle"
    /\ ~db
    /\ db' = TRUE
    /\ embeddingPipeline' = TRUE
    /\ table' = kb.exists
    /\ UNCHANGED <<kbFrame, kb>>

\* POST /ingest up to the first await of addDocument
route_ingest ==
    /\ CanStart
    /\ kb.issued < MaxDocs
    /\ \E body \in IngestBodies :
          kb' = IF Trim(body.title) = <<>> \/ Trim(body.content) = <<>>
                THEN Finish(Summary("ingest", 0, "400"))
                ELSE IF ~db THEN Finish(Summary("ingest", 0, "503"))
                ELSE [StartAdd("ingest", kb.issued + 1, Trim(body.content),
                               Spread([title |-> Trim(body.title),
                                       created_at |-> Now, updated_at |-> Now],
                                      NoFields),
                               body.content)
                        EXCEPT !.issued = kb.issued + 1]
    /\ UNCHANGED <<kbFrame, lanceVars>>

\* GET /documents/:id
route_get ==
    /\ CanStart
    /\ \E id \in 1..MaxDocs :
          LET rawDoc == getDocumentById(id)
          IN  kb' = IF ~db THEN Finish(Summary("get", id, "503"))
                    ELSE IF ~rawDoc.found THEN Finish(Summary("get", id, "404"))
                    ELSE Finish([Summary("get", rawDoc.id, "200") EXCEPT
                                    !.content = rawDoc.text,
                                    !.created_at = rawDoc.metadata.created_at,
                                    !.updated_at = rawDoc.metadata.updated_at])
    /\ UNCHANGED <<kbFrame, lanceVars>>

\* PUT /documents/:id up to the first await of addDocument
route_put ==
    /\ CanStart
    /\ \E id \in 1..MaxDocs, body \in PutBodies :
          LET existingDoc == getDocumentById(id)
              newTitle == TrimmedOr(body, "title", existingDoc.metadata.title)
              newContent == TrimmedOr(body, "content", existingDoc.text)
              newMetadata ==
                  Spread(Spread(existingDoc.metadata,
                                [title |-> newTitle, updated_at |-> Now]),
                         NoFields)
          IN  kb' = IF ~db THEN Finish(Summary("put", id, "503"))
                    ELSE IF ~existingDoc.found THEN Finish(Summary("put", id, "404"))
                    ELSE StartAdd("put", id, newContent, newMetadata,
                                  IF "content" \in DOMAIN body THEN body.content
                                  ELSE <<>>)
    /\ UNCHANGED <<kbFrame, lanceVars>>

\* DELETE /documents/:id; table.delete resolves or rejects
route_delete ==
    /\ CanStart
    /\ \E id \in 1..MaxDocs, resolves \in BOOLEAN :
          LET existingDoc == getDocumentById(id)
          IN  kb' = IF ~db THEN Finish(Summary("delete", id, "503"))
                    ELSE IF ~existingDoc.found THEN Finish(Summary("delete", id, "404"))
                    ELSE IF ~resolves THEN Finish(Summary("delete", id, "500"))
                    ELSE [Finish(Summary("delete", id, "200")) EXCEPT
                             !.rows = DeleteRows(kb.rows, id),
                             !.lastAdd = {a \in kb.lastAdd : a.id # id}]
    /\ UNCHANGED <<kbFrame, lanceVars>>

\* addDocument called while db is null (the case the routes never reach)
call_addDocument ==
    /\ CanStart
    /\ ~db
    /\ \E id \in 1..MaxDocs :
          kb' = StartAdd("addDocument", id, <<"direct">>,
                         [title |-> <<"Direct">>, created_at |-> Now,
                          updated_at |-> Now], <<"direct">>)
    /\ UNCHANGED <<kbFrame, lanceVars>>

\* deleteDocument called while db is null: if (!table) return
call_deleteDocument ==
    /\ CanStart
    /\ ~db
    /\ \E id \in 1..MaxDocs :
          kb' = Finish([Summary("deleteDocument", id, "resolved") EXCEPT
                           !.notReady = TRUE])
    /\ UNCHANGED <<kbFrame, lanceVars>>

\* queryDocuments called while db is null: if (!table) return []
call_queryDocuments ==
    /\ CanStart
    /\ ~db
    /\ kb' = Finish([Summary("queryDocuments", 0, "resolved") EXCEPT
                        !.notReady = TRUE])
    /\ UNCHANGED <<kbFrame, lanceVars>>

\* addDocument: `await initLanceDB()` resolves
addDocument_initReturn ==
    /\ kb.pc = "initLanceDB"
    /\ db' = TRUE
    /\ embeddingPipeline' = TRUE
    /\ table' = kb.exists
    /\ kb' = [kb EXCEPT !.pc = "embed"]
    /\ UNCHANGED kbFrame

\* addDocument: `await initLanceDB()` rejects, and so does addDocument
addDocument_initThrow ==
    /\ kb.pc = "initLanceDB"
    /\ kb' = EndAdd(FALSE, "initLanceDB failed", kb.rows)
    /\ UNCHANGED <<kbFrame, lanceVars>>

\* addDocument: generateEmbedding resolves; the record is built; without a
\* table handle the table is opened, or created with the record
addDocument_embedReturn ==
    /\ kb.pc = "embed"
    /\ LET c == kb.call
           record == BuildRecord(c.id, Embed(c.text), c.text, c.metadata)
       IN  IF ~table /\ ~kb.exists
           THEN /\ kb' = [EndAdd(TRUE, "", <<record>>) EXCEPT !.exists = TRUE]
                /\ table' = TRUE
           ELSE /\ kb' = [kb EXCEPT !.pc = "delete", !.call.record = record]
                /\ table' = TRUE
    /\ UNCHANGED <<kbFrame, db, embeddingPipeline>>

\* addDocument: generateEmbedding rejects
addDocument_embedThrow ==
    /\ kb.pc = "embed"
    /\ kb' = EndAdd(FALSE, "embedding failed", kb.rows)
    /\ UNCHANGED <<kbFrame, lanceVars>>

\* addDocument: table.delete resolves
addDocument_deleteReturn ==
    /\ kb.pc = "delete"
    /\ kb' = [kb EXCEPT !.pc = "add", !.rows = DeleteRows(kb.rows, kb.call.id)]
    /\ UNCHANGED <<kbFrame, lanceVars>>

\* addDocument: table.delete rejects; catch (e) { } and go on
addDocument_deleteThrow ==
    /\ kb.pc = "delete"
    /\ kb' = [kb EXCEPT !.pc = "add"]
    /\ UNCHANGED <<kbFrame, lanceVars>>

\* addDocument: table.add resolves
addDocument_addReturn ==
    /\ kb.pc = "add"
    /\ kb' = EndAdd(TRUE, "", Append(kb.rows, kb.call.record))
    /\ UNCHANGED <<kbFrame, lanceVars>>

\* addDocument: table.add rejects
addDocument_addThrow ==
    /\ kb.pc = "add"
    /\ kb' = EndAdd(FALSE, "add failed", kb.rows)
    /\ UNCHANGED <<kbFrame, lanceVars>>

NextStore ==
    \/ startup_initLanceDB
    \/ route_ingest
    \/ route_get
    \/ route_put
    \/ route_delete
    \/ call_addDocument
    \/ call_deleteDocument
    \/ call_queryDocuments
    \/ addDocument_initReturn
    \/ addDocument_initThrow
    \/ addDocument_embedReturn
    \/ addDocument_embedThrow
    \/ addDocument_deleteReturn
    \/ addDocument_deleteThrow
    \/ addDocument_addReturn
    \/ addDocument_addThrow

SpecStore == InitStore /\ [][NextStore]_vars

\* the rows of the table with a given id
RowsOf(id) == SelectSeq(kb.rows, LAMBDA r : r.id = id)

\* entries k..k+3 of kb.trip are ingest, fetch, update of the content and
\* fetch of one document, all answered 200
IsRoundTrip(k) ==
    /\ k + 3 <= Len(kb.trip)
    /\ kb.trip[k].op = "ingest" /\ kb.trip[k].status = "200"
    /\ kb.trip[k + 1].op = "get" /\ kb.trip[k + 1].status = "200"
    /\ kb.trip[k + 2].op = "put" /\ kb.trip[k + 2].status = "200"
    /\ kb.trip[k + 2].sent # <<>>
    /\ kb.trip[k + 3].op = "get" /\ kb.trip[k + 3].status = "200"
    /\ \A j \in 1..3 : kb.trip[k + j].id = kb.trip[k].id

(***************************************************************************)
(* C21.  After ingest, fetch, update of the content through PUT and fetch  *)
(* again, the fetched content is the updated content, updated_at has       *)
(* advanced, and id and created_at are those of the first fetch.           *)
(***************************************************************************)
C21_UpdateRoundTrip ==
    \A k \in 1..Len(kb.trip) :
       IsRoundTrip(k) =>
          /\ kb.trip[k + 3].content = kb.trip[k + 2].sent
          /\ kb.trip[k + 3].updated_at > kb.trip[k + 1].updated_at
          /\ kb.trip[k + 3].created_at = kb.trip[k + 1].created_at

(***************************************************************************)
(* C22.  Between calls, the table holds exactly one row for each id whose  *)
(* last addDocument call resolved and that was not removed since, and the  *)
(* row carries the text and the metadata of that call.                     *)
(***************************************************************************)
C22_UpsertOneRowLastWins ==
    kb.pc = "idle" =>
       \A a \in kb.lastAdd :
          /\ Len(RowsOf(a.id)) = 1
          /\ RowsOf(a.id)[1].text = a.text
          /\ RowsOf(a.id)[1].title = a.metadata.title
          /\ RowsOf(a.id)[1].created_at = a.metadata.created_at
          /\ RowsOf(a.id)[1].updated_at = a.metadata.updated_at

(***************************************************************************)
(* C23.  A search, upsert or remove called while the vector service is not *)
(* ready is rejected with the store-not-ready error: it never waits for    *)
(* the initialization and never resolves.                                  *)
(***************************************************************************)
C23_NotReadyFailsFast ==
    /\ kb.pc # "initLanceDB"
    /\ \A k \in 1..Len(kb.trip) :
          kb.trip[k].notReady =>
             /\ kb.trip[k].status = "rejected"
             /\ kb.trip[k].error = "LanceDB not initialized"
             /\ ~kb.trip[k].awaitedInit

(***************************************************************************)
(* The messages and chat_bin tables of db/sqlite.ts and the routes of      *)
(* routes/chat.ts.  chat.messages and chat.bin hold the rows in insertion  *)
(* (rowid) order.  Timestamps are toISOString() values, which compare as   *)
(* strings in the order of their instants; the model keeps the instant.    *)
(* chat.pending lists the requests that wait for the agent.                *)
(***************************************************************************)
MaxMsgs == 2

MaxClock == 1

Sessions == {"s1", "s2"}

\* req.body.content: absent, not a string, or a string
ContentInputs ==
    { [type |-> "undefined", value |-> <<>>],
      [type |-> "number", value |-> <<"5">>],
      [type |-> "string", value |-> <<>>],
      [type |-> "string", value |-> <<" ", " ">>],
      [type |-> "string", value |-> <<" ", "hi", " ">>] }

\* a variant of the test below without the trim
ContentOfUntrimmed(body) == IF body.type = "string" THEN body.value ELSE <<>>

\* typeof req.body?.content === "string" ? req.body.content.trim() : ""
ContentOf(body) == IF body.type = "string" THEN Trim(body.value) ELSE <<>>

\* the rows of a session in the messages table, in insertion order
ActiveOf(messages, sessionId) == SelectSeq(messages, LAMBDA m : m.session_id = sessionId)

StoredMessage(row) ==
    [id |-> row.id, role |-> row.role, content |-> row.content,
     timestamp |-> row.timestamp]

Reverse(s) == [k \in 1..Len(s) |-> s[Len(s) + 1 - k]]

\* LIMIT n
Take(s, n) == SubSeq(s, 1, Min(n, Len(s)))

\* the orders ORDER BY timestamp DESC may give the rows in: any order of
\* the rows in which timestamps never increase (the order of rows with
\* equal timestamps is not defined by the query)
OrderedDesc(rows) ==
    { p \in { [k \in 1..Len(rows) |-> rows[f[k]]] : f \in Permutations(1..Len(rows)) } :
        \A i, j \in 1..Len(rows) : i < j => p[i].timestamp >= p[j].timestamp }

\* what getMessages(sessionId, limit) may return
getMessages(messages, sessionId, limit) ==
    { Reverse([k \in 1..Len(Take(p, limit)) |-> StoredMessage(Take(p, limit)[k])]) :
        p \in OrderedDesc(ActiveOf(messages, sessionId)) }

\* addMessage: INSERT INTO messages
addMessage(messages, sessionId, msg) ==
    Append(messages, [id |-> msg.id, session_id |-> sessionId, role |-> msg.role,
                      content |-> msg.content, timestamp |-> msg.timestamp])

\* variants of the two statements of archiveSession
BinAfterArchiveDropsContent(bin, messages, sessionId, archivedAt) ==
    bin \o [k \in 1..Len(ActiveOf(messages, sessionId)) |->
              [id |-> ActiveOf(messages, sessionId)[k].id,
               session_id |-> sessionId,
               role |-> ActiveOf(messages, sessionId)[k].role,
               content |-> <<>>,
               timestamp |-> ActiveOf(messages, sessionId)[k].timestamp,
               archived_at |-> archivedAt]]

\* INSERT INTO chat_bin ... SELECT ... FROM messages WHERE session_id = ?
BinAfterArchive(bin, messages, sessionId, archivedAt) ==
    bin \o [k \in 1..Len(ActiveOf(messages, sessionId)) |->
              [id |-> ActiveOf(messages, sessionId)[k].id,
               session_id |-> sessionId,
               role |-> ActiveOf(messages, sessionId)[k].role,
               content |-> ActiveOf(messages, sessionId)[k].content,
               timestamp |-> ActiveOf(messages, sessionId)[k].timestamp,
               archived_at |-> archivedAt]]

\* DELETE FROM messages WHERE session_id = ?
MessagesAfterArchive(messages, sessionId) ==
    SelectSeq(messages, LAMBDA m : m.session_id # sessionId)

\* new Date().toISOString() of a call, as a count of milliseconds (the text
\* has a fixed width, so its order is the order of the instants): the instant
\* of the call before it, or a later one
Instants == {t \in {chat.clock, chat.clock + 1} : t <= MaxClock}

\* nextId()
NextMsgId == chat.issued + 1

chatFrame == <<turnVars, pt, rag, conc, kb, qd, strm, cfgdb, wireVars>>

InitChat ==
    /\ TurnParked
    /\ knowledgeConfig = [maxDocuments |-> 3, similarityThreshold |-> 140,
                          maxContextLength |-> 2000]
    /\ db = TRUE
    /\ table = TRUE
    /\ embeddingPipeline = TRUE
    /\ pt = PtIdle
    /\ rag = RagIdle
    /\ conc = ConcIdle
    /\ StoresIdle

\* POST / and POST /stream up to the first await of the agent: the test of
\* the content, the user message, the history read and the start of the turn
post_chat ==
    /\ chat.issued < MaxMsgs
    /\ \E sessionId \in Sessions, body \in ContentInputs, instant \in Instants :
          LET content == ContentOf(body)
              call == [NoChatCall EXCEPT !.op = "post",
                                         !.body = body, !.before = chat.messages,
                                         !.runsBefore = chat.agentRuns]
          IN  chat' = IF content = <<>>
                      THEN [chat EXCEPT !.last = [call EXCEPT !.status = "400"]]
                      ELSE [chat EXCEPT
                              !.messages = addMessage(chat.messages, sessionId,
                                              [id |-> NextMsgId, role |-> "user",
                                               content |-> content,
                                               timestamp |-> instant]),
                              !.clock = instant,
                              !.issued = NextMsgId,
                              !.pending = Append(chat.pending, sessionId),
                              !.agentRuns = chat.agentRuns + 1,
                              !.last = [call EXCEPT !.session = sessionId,
                                                    !.status = "200"]]
    /\ UNCHANGED chatFrame

\* the turn of a waiting request returns: the assistant message is added
post_agentReturn ==
    /\ chat.issued < MaxMsgs
    /\ \E k \in 1..Len(chat.pending), instant \in Instants :
          chat' = [chat EXCEPT
                     !.messages = addMessage(chat.messages, chat.pending[k],
                                     [id |-> NextMsgId, role |-> "assistant",
                                      content |-> <<"reply">>,
                                      timestamp |-> instant]),
                     !.clock = instant,
                     !.issued = NextMsgId,
                     !.pending = SubSeq(chat.pending, 1, k - 1)
                                    \o SubSeq(chat.pending, k + 1, Len(chat.pending)),
                     !.last = [NoChatCall EXCEPT !.op = "reply",
                                                 !.session = chat.pending[k],
                                                 !.status = "201"]]
    /\ UNCHANGED chatFrame

\* the turn of a waiting request throws: catch, status 500, no message
post_agentThrow ==
    /\ \E k \in 1..Len(chat.pending) :
          chat' = [chat EXCEPT
                     !.pending = SubSeq(chat.pending, 1, k - 1)
                                    \o SubSeq(chat.pending, k + 1, Len(chat.pending)),
                     !.last = [NoChatCall EXCEPT !.op = "reply",
                                                 !.session = chat.pending[k],
                                                 !.status = "500"]]
    /\ UNCHANGED chatFrame

\* getMessages(sessionId, limit), as GET / calls it
get_history ==
    /\ \E sessionId \in Sessions, limit \in 0..MaxMsgs :
          \E result \in getMessages(chat.messages, sessionId, limit) :
             chat' = [chat EXCEPT
                        !.last = [NoChatCall EXCEPT !.op = "get",
                                                    !.session = sessionId,
                                                    !.limit = limit,
                                                    !.result = result]]
    /\ UNCHANGED chatFrame

\* DELETE /history with a session cookie: archiveSession(sessionId)
delete_history ==
    /\ \E sessionId \in Sessions, archivedAt \in Instants :
          LET active == ActiveOf(chat.messages, sessionId)
          IN  chat' = [chat EXCEPT
                         !.bin = BinAfterArchive(chat.bin, chat.messages, sessionId,
                                                 archivedAt),
                         !.messages = MessagesAfterArchive(chat.messages, sessionId),
                         !.clock = archivedAt,
                         !.last = [NoChatCall EXCEPT
                                      !.op = "archive", !.session = sessionId,
                                      !.limit = archivedAt,
                                      !.before = [k \in 1..Len(active) |->
                                                     StoredMessage(active[k])],
                                      !.status = "200"]]
    /\ UNCHANGED chatFrame

NextChat ==
    \/ post_chat
    \/ post_agentReturn
    \/ post_agentThrow
    \/ get_history
    \/ delete_history

SpecChat == InitChat /\ [][NextChat]_vars

\* Array.prototype.slice(-n)
LastN(s, n) == SubSeq(s, Max(1, Len(s) - n + 1), Len(s))

BinOf(sessionId) == SelectSeq(chat.bin, LAMBDA b : b.session_id = sessionId)

(***************************************************************************)
(* C26.  Right after archiveSession(s), getMessages(s, n) returns the      *)
(* empty list for every n, and chat_bin holds every message that was in    *)
(* the active log of s before the call with id, role, content and          *)
(* timestamp unchanged.                                                    *)
(***************************************************************************)
C26_ArchiveMovesSession ==
    chat.last.op = "archive" =>
        /\ \A n \in 0..MaxMsgs :
              getMessages(chat.messages, chat.last.session, n) = {<<>>}
        /\ \A k \in 1..Len(chat.last.before) :
              \E j \in 1..Len(chat.bin) :
                 /\ chat.bin[j].session_id = chat.last.session
                 /\ StoredMessage(chat.bin[j]) = chat.last.before[k]

W_C26_ArchivedTwice ==
    /\ chat.last.op = "archive"
    /\ chat.last.before # <<>>
    /\ \E j \in 1..Len(BinOf(chat.last.session)) :
          BinOf(chat.last.session)[j].archived_at < chat.last.limit

(***************************************************************************)
(* C27.  getMessages(sessionId, limit) returns the last `limit` messages   *)
(* added to the session, in the order in which they were added, also when  *)
(* timestamps are equal.                                                   *)
(***************************************************************************)
C27_HistoryIsLastAppended ==
    chat.last.op = "get" =>
        chat.last.result =
            LastN([k \in 1..Len(ActiveOf(chat.messages, chat.last.session)) |->
                      StoredMessage(ActiveOf(chat.messages, chat.last.session)[k])],
                  chat.last.limit)

(***************************************************************************)
(* C30.  A chat request whose content is missing, not a string or empty    *)
(* after trimming is answered 400 and does nothing else: no message is     *)
(* added, no turn of the agent is started.                                 *)
(***************************************************************************)
C30_BadContentRejectedFirst ==
    (/\ chat.last.op = "post"
     /\ (chat.last.body.type # "string" \/ Trim(chat.last.body.value) = <<>>))
    => /\ chat.last.status = "400"
       /\ chat.messages = chat.last.before
       /\ chat.agentRuns = chat.last.runsBefore

W_C30_BlankContentRejected ==
    /\ chat.last.op = "post"
    /\ chat.last.body = [type |-> "string", value |-> <<" ", " ">>]
    /\ chat.last.status = "400"
    /\ Len(chat.messages) > 0

(***************************************************************************)
(* _streamResponseChunks: the generation callback fills a queue, the       *)
(* async generator empties it.  JavaScript runs each callback and each     *)
(* stretch of the generator between two suspensions to completion, so      *)
(* each is one step here.                                                  *)
(***************************************************************************)
MaxProduced == 3

\* the texts TextStreamer hands to callback_function
StreamTexts == {"", "a", "b"}

\* a variant of the loop head below that never tests isDone
LoopHeadNoDoneTest(queue, isDone) ==
    IF Len(queue) > 0 THEN "yield" ELSE "wait"

\* a variant of the loop head below that tests isDone before the queue
LoopHeadDoneFirst(queue, isDone) ==
    IF isDone THEN "finish" ELSE IF Len(queue) > 0 THEN "yield" ELSE "wait"

\* the head of `while (true)`: what the generator does next
LoopHead(queue, isDone) ==
    IF Len(queue) > 0 THEN "yield" ELSE IF isDone THEN "finish" ELSE "wait"

strmFrame == <<turnVars, pt, rag, conc, kb, qd, chat, cfgdb, wireVars>>

\* the generator has started the generation and reaches the loop
InitStream ==
    /\ TurnParked
    /\ knowledgeConfig = [maxDocuments |-> 3, similarityThreshold |-> 140,
                          maxContextLength |-> 2000]
    /\ db = TRUE
    /\ table = TRUE
    /\ embeddingPipeline = TRUE
    /\ pt = PtIdle
    /\ rag = RagIdle
    /\ conc = ConcIdle
    /\ kb = KbIdle
    /\ qd = QdIdle
    /\ chat = ChatIdle
    /\ cfgdb = CfgIdle
    /\ WireIdle
    /\ strm = [StrmIdle EXCEPT !.pc = "loop", !.generation = "running"]

\* onChunk(text)
stream_onChunk ==
    /\ strm.generation = "running"
    /\ Len(strm.produced) < MaxProduced
    /\ \E text \in StreamTexts :
          strm' = IF text # ""
                  THEN [strm EXCEPT
                          !.produced = Append(strm.produced, text),
                          !.queue = Append(strm.queue, text),
                          !.resolveNext = FALSE,
                          !.pc = IF strm.resolveNext THEN "loop" ELSE strm.pc]
                  ELSE [strm EXCEPT !.produced = Append(strm.produced, text)]
    /\ UNCHANGED strmFrame

\* generator(...).then
stream_generationThen ==
    /\ strm.generation = "running"
    /\ strm' = [strm EXCEPT
                  !.generation = "settled",
                  !.isDone = TRUE,
                  !.pc = IF strm.resolveNext THEN "loop" ELSE strm.pc]
    /\ UNCHANGED strmFrame

\* generator(...).catch
stream_generationCatch ==
    /\ strm.generation = "running"
    /\ strm' = [strm EXCEPT
                  !.generation = "settled",
                  !.error = TRUE,
                  !.isDone = TRUE,
                  !.pc = IF strm.resolveNext THEN "loop" ELSE strm.pc]
    /\ UNCHANGED strmFrame

\* queue.shift() and yield; the consumer asks for the next chunk
stream_yield ==
    /\ strm.pc = "loop"
    /\ LoopHead(strm.queue, strm.isDone) = "yield"
    /\ strm' = [strm EXCEPT !.queue = Tail(strm.queue),
                            !.yielded = Append(strm.yielded, Head(strm.queue))]
    /\ UNCHANGED strmFrame

\* if (isDone) { if (error) throw error; break; }
stream_finish ==
    /\ strm.pc = "loop"
    /\ LoopHead(strm.queue, strm.isDone) = "finish"
    /\ strm' = [strm EXCEPT !.pc = IF strm.error THEN "thrown" ELSE "done"]
    /\ UNCHANGED strmFrame

\* await new Promise((resolve) => { resolveNext = resolve; })
stream_wait ==
    /\ strm.pc = "loop"
    /\ LoopHead(strm.queue, strm.isDone) = "wait"
    /\ strm' = [strm EXCEPT !.pc = "waiting", !.resolveNext = TRUE]
    /\ UNCHANGED strmFrame

NextStream ==
    \/ stream_onChunk
    \/ stream_generationThen
    \/ stream_generationCatch
    \/ stream_yield
    \/ stream_finish
    \/ stream_wait

SpecStream == InitStream /\ [][NextStream]_vars

\* the texts the callback pushes: `if (text)`
NonEmpty(texts) == SelectSeq(texts, LAMBDA t : t # "")

(***************************************************************************)
(* C28.  The tokens _streamResponseChunks yields are the non-empty chunks  *)
(* the generation callback produced, each once and in the order of the     *)
(* generation: at every moment a prefix of them, and all of them when the  *)
(* generator ends, by return or by throw.                                  *)
(***************************************************************************)
C28_YieldsProducedChunksInOrder ==
    /\ IsPrefix(strm.yielded, NonEmpty(strm.produced))
    /\ strm.pc \in {"done", "thrown"} => strm.yielded = NonEmpty(strm.produced)

W_C28_DrainedAfterDone ==
    /\ strm.pc = "done"
    /\ Len(strm.yielded) >= 2
    /\ \E k \in 1..Len(strm.produced) : strm.produced[k] = ""

(***************************************************************************)
(* The knowledge_config table: getKnowledgeConfig and                      *)
(* updateKnowledgeConfig behind GET and PUT /config.  Numbers are counted  *)
(* in hundredths; the table holds their decimal text, one character per    *)
(* element.                                                                *)
(***************************************************************************)
ConfigKeys == {"maxDocuments", "similarityThreshold", "maxContextLength"}

DigitChars == <<"0", "1", "2", "3", "4", "5", "6", "7", "8", "9">>

IsDigit(c) == \E d \in 1..10 : DigitChars[d] = c

DigitValue(c) == (CHOOSE d \in 1..10 : DigitChars[d] = c) - 1

RECURSIVE ToDigits(_)
ToDigits(n) ==
    IF n < 10 THEN <<DigitChars[n + 1]>>
    ELSE ToDigits(n \div 10) \o <<DigitChars[(n % 10) + 1]>>

\* Number.prototype.toString of a non-negative number with at most two decimals
NumberToString(x) ==
    ToDigits(x \div 100)
        \o (IF x % 100 = 0 THEN <<>>
            ELSE IF x % 10 = 0 THEN <<".", DigitChars[((x % 100) \div 10) + 1]>>
            ELSE <<".", DigitChars[((x % 100) \div 10) + 1], DigitChars[(x % 10) + 1]>>)

\* ToString of the argument of parseInt and parseFloat
ToStringArg(value) ==
    IF value.type = "undefined"
    THEN <<"u", "n", "d", "e", "f", "i", "n", "e", "d">>
    ELSE value.s

\* the length of the longest run of digits of s that starts at position from
RECURSIVE DigitRun(_, _)
DigitRun(s, from) ==
    IF from <= Len(s) /\ IsDigit(s[from]) THEN 1 + DigitRun(s, from + 1) ELSE 0

RECURSIVE DigitsValue(_)
DigitsValue(digits) ==
    IF digits = <<>> THEN 0
    ELSE 10 * DigitsValue(SubSeq(digits, 1, Len(digits) - 1))
            + DigitValue(digits[Len(digits)])

\* parseInt(value, 10)
parseInt(value) ==
    LET s == ToStringArg(value)
        n == DigitRun(s, 1)
    IN  IF n = 0 THEN NaN ELSE Num(100 * DigitsValue(SubSeq(s, 1, n)))

\* parseFloat(value), to two decimals
parseFloat(value) ==
    LET s == ToStringArg(value)
        n == DigitRun(s, 1)
        hasPoint == n < Len(s) /\ s[n + 1] = "."
        m == IF hasPoint THEN DigitRun(s, n + 2) ELSE 0
        frac == SubSeq(s, n + 2, n + 1 + Min(m, 2))
    IN  IF n = 0 /\ m = 0 THEN NaN
        ELSE Num(100 * DigitsValue(SubSeq(s, 1, n))
                    + (IF Len(frac) = 1 THEN 10 * DigitsValue(frac)
                       ELSE DigitsValue(frac)))

\* a variant of the fallback below that keeps the value read
OrDefaultNever(value, default) == value

\* value || default, on strings and undefined
OrDefault(value, default) ==
    IF value.type = "string" /\ value.s # <<>> THEN value ELSE Str(default)

\* config[key] of the Record filled from the rows
RowValue(rows, key) == IF key \in DOMAIN rows THEN Str(rows[key]) ELSE Undefined

getKnowledgeConfigFrom(dbOpen, rows) ==
    IF ~dbOpen
    THEN [maxDocuments |-> Num(300), similarityThreshold |-> Num(20),
          maxContextLength |-> Num(200000)]
    ELSE [maxDocuments |->
              parseInt(OrDefault(RowValue(rows, "maxDocuments"), <<"3">>)),
          similarityThreshold |->
              parseFloat(OrDefault(RowValue(rows, "similarityThreshold"),
                                   <<"0", ".", "7">>)),
          maxContextLength |->
              parseInt(OrDefault(RowValue(rows, "maxContextLength"),
                                 <<"2", "0", "0", "0">>))]

\* INSERT OR REPLACE INTO knowledge_config
Upsert(rows, key, text) ==
    [k \in DOMAIN rows \cup {key} |-> IF k = key THEN text ELSE rows[k]]

UpdateKey(rows, config, key) ==
    IF config[key].type # "undefined"
    THEN Upsert(rows, key, NumberToString(config[key].v))
    ELSE rows

updateKnowledgeConfig(dbOpen, rows, config) ==
    IF ~dbOpen THEN rows
    ELSE UpdateKey(UpdateKey(UpdateKey(rows, config, "maxDocuments"),
                             config, "similarityThreshold"),
                   config, "maxContextLength")

\* a field of the body of PUT /config: absent, or a number in hundredths
Given(v) == [type |-> "number", v |-> v]

Absent == [type |-> "undefined", v |-> 0]

ConfigBodies ==
    [maxDocuments : {Absent, Given(0), Given(250), Given(2000)},
     similarityThreshold : {Absent, Given(0), Given(5)},
     maxContextLength : {Absent, Given(5000), Given(10000)}]

\* a variant of the tests below that stops at the first field
ValidBodyFirstFieldOnly(body) ==
    body.maxDocuments.type = "undefined"
       \/ (body.maxDocuments.v >= 100 /\ body.maxDocuments.v <= 2000)

\* the three tests of PUT /config
ValidBody(body) ==
    /\ body.maxDocuments.type = "undefined"
          \/ (body.maxDocuments.v >= 100 /\ body.maxDocuments.v <= 2000)
    /\ body.similarityThreshold.type = "undefined"
          \/ (body.similarityThreshold.v >= 0 /\ body.similarityThreshold.v <= 100)
    /\ body.maxContextLength.type = "undefined"
          \/ (body.maxContextLength.v >= 10000 /\ body.maxContextLength.v <= 1000000)

\* the rows initDb inserts into an empty table
DefaultRows ==
    [k \in ConfigKeys |->
        CASE k = "maxDocuments" -> <<"3">>
          [] k = "similarityThreshold" -> <<"0", ".", "7">>
          [] k = "maxContextLength" -> <<"2", "0", "0", "0">>]

\* the rows of knowledge_config in the file at DB_PATH: none, or rows this
\* program wrote, for any of the keys
FileRows ==
    { rows \in UNION { [keys -> {<<"3">>, <<"0">>, <<"0", ".", "7">>,
                                  <<"2", "0", "0", "0">>}] :
                         keys \in SUBSET ConfigKeys } :
        \A k \in DOMAIN rows :
           rows[k] \in (CASE k = "maxDocuments" -> {<<"3">>}
                          [] k = "similarityThreshold" -> {<<"0">>, <<"0", ".", "7">>}
                          [] k = "maxContextLength" -> {<<"2", "0", "0", "0">>}) }

cfgFrame == <<turnVars, pt, rag, conc, kb, qd, chat, strm, wireVars>>

InitConfig ==
    /\ TurnParked
    /\ knowledgeConfig = [maxDocuments |-> 3, similarityThreshold |-> 140,
                          maxContextLength |-> 2000]
    /\ db = TRUE
    /\ table = TRUE
    /\ embeddingPipeline = TRUE
    /\ pt = PtIdle
    /\ rag = RagIdle
    /\ conc = ConcIdle
    /\ kb = KbIdle
    /\ qd = QdIdle
    /\ chat = ChatIdle
    /\ strm = StrmIdle
    /\ WireIdle
    /\ \E rows \in FileRows : cfgdb = [CfgIdle EXCEPT !.rows = rows]

\* initDb: the file is loaded, an empty table gets the three defaults
config_initDb ==
    /\ ~cfgdb.db
    /\ cfgdb' = [cfgdb EXCEPT
                   !.db = TRUE,
                   !.rows = IF DOMAIN cfgdb.rows = {} THEN DefaultRows ELSE cfgdb.rows,
                   !.last = NoConfigCall]
    /\ UNCHANGED cfgFrame

\* GET /config
config_get ==
    /\ cfgdb' = [cfgdb EXCEPT
                   !.last = [NoConfigCall EXCEPT
                               !.op = "get", !.status = "200",
                               !.config = getKnowledgeConfigFrom(cfgdb.db, cfgdb.rows)]]
    /\ UNCHANGED cfgFrame

\* PUT /config
config_put ==
    /\ \E body \in ConfigBodies :
          IF ~ValidBody(body)
          THEN cfgdb' = [cfgdb EXCEPT
                           !.last = [NoConfigCall EXCEPT !.op = "put",
                                                         !.status = "400",
                                                         !.input = body,
                                                         !.before = cfgdb.rows]]
          ELSE LET rows == updateKnowledgeConfig(cfgdb.db, cfgdb.rows, body)
               IN  cfgdb' = [cfgdb EXCEPT
                               !.rows = rows,
                               !.last = [NoConfigCall EXCEPT
                                           !.op = "put", !.status = "200",
                                           !.input = body,
                                           !.config =
                                               getKnowledgeConfigFrom(cfgdb.db, rows)]]
    /\ UNCHANGED cfgFrame

NextConfig ==
    \/ config_initDb
    \/ config_get
    \/ config_put

SpecConfig == InitConfig /\ [][NextConfig]_vars

\* the defaults of initDb, as numbers
DefaultConfig ==
    [maxDocuments |-> Num(300), similarityThreshold |-> Num(70),
     maxContextLength |-> Num(200000)]

(***************************************************************************)
(* C29.  Whatever getKnowledgeConfig returns has the three fields          *)
(* maxDocuments, similarityThreshold and maxContextLength, each a number   *)
(* and not NaN: before initDb, with keys missing from the table, and after *)
(* any updates with partial configs.  For a key missing from the table of  *)
(* an open database the field has the default.                             *)
(***************************************************************************)
C29_ConfigAlwaysComplete ==
    cfgdb.last.status = "200" =>
        /\ DOMAIN cfgdb.last.config = ConfigKeys
        /\ \A k \in ConfigKeys : ~cfgdb.last.config[k].nan
        /\ \A k \in ConfigKeys :
              (cfgdb.db /\ k \notin DOMAIN cfgdb.rows)
                 => cfgdb.last.config[k] = DefaultConfig[k]

W_C29_PartialUpdateKeyMissing ==
    /\ cfgdb.last.op = "put"
    /\ cfgdb.last.status = "200"
    /\ cfgdb.db
    /\ cfgdb.last.input.similarityThreshold = Given(0)
    /\ cfgdb.last.input.maxDocuments = Absent
    /\ "maxDocuments" \notin DOMAIN cfgdb.rows
    /\ cfgdb.last.config.similarityThreshold = Num(0)

(***************************************************************************)
(* One call of AgentService.classifyIntent: the message list goes to       *)
(* model.invoke, and the label is computed from what it resolves with.     *)
(***************************************************************************)
\* what model.invoke may resolve with: a text, or content that is no string
ClassifyResults ==
    { InvokeResult(t) : t \in RouterTexts }
        \cup { InvokeResult(<<>>),
               InvokeResult(<<" ", " ">>),
               InvokeResult(<<"k", "n", "o", "w", "l", "e", "d", "g", "e", " ",
                              "G", "R", "E", "E", "T", "I", "N", "G">>),
               InvokeResult(<<"O", "F", "F", "_", "T", "O", "P", "I", "C">>),
               [isString |-> FALSE, content |-> <<>>] }

clsFrame == <<turnVars, pt, rag, conc, kb, qd, chat, strm, cfgdb, sse, rd, kbc>>

InitClassify ==
    /\ TurnParked
    /\ knowledgeConfig = [maxDocuments |-> 3, similarityThreshold |-> 140,
                          maxContextLength |-> 2000]
    /\ db = TRUE
    /\ table = TRUE
    /\ embeddingPipeline = TRUE
    /\ pt = PtIdle
    /\ rag = RagIdle
    /\ conc = ConcIdle
    /\ StoresIdle

\* classifyIntent(query, history) up to `await this.model.invoke(messages)`
classifyIntent_invoke ==
    /\ cls.pc = "idle"
    /\ \E q \in Queries, h \in Histories :
          cls' = [cls EXCEPT !.pc = "invoke", !.query = q,
                             !.messages = classifyMessages(q, h)]
    /\ UNCHANGED clsFrame

\* model.invoke resolves: the label is returned
classifyIntent_return ==
    /\ cls.pc = "invoke"
    /\ \E result \in ClassifyResults :
          cls' = [cls EXCEPT !.pc = "returned", !.result = result,
                             !.label = classifyIntent(result, cls.query)]
    /\ UNCHANGED clsFrame

\* model.invoke rejects: classifyIntent has no catch, it returns nothing
classifyIntent_throw ==
    /\ cls.pc = "invoke"
    /\ cls' = [cls EXCEPT !.pc = "thrown"]
    /\ UNCHANGED clsFrame

NextClassify ==
    \/ classifyIntent_invoke
    \/ classifyIntent_return
    \/ classifyIntent_throw

SpecClassify == InitClassify /\ [][NextClassify]_vars

\* the model output names a label, in any case of letters
NamesLabel(result, label) ==
    result.isString /\ Includes(ToUpperCase(result.content), label)

(***************************************************************************)
(* C31.  When classifyIntent returns, it returns GREETING, KNOWLEDGE or    *)
(* OFF_TOPIC and nothing else; and for a query without in-domain keyword   *)
(* it returns OFF_TOPIC when the model output holds neither GREETING nor   *)
(* KNOWLEDGE, in any case of letters.                                      *)
(***************************************************************************)
C31_ClosedLabelsDefaultOffTopic ==
    cls.pc = "returned" =>
        /\ cls.label \in Labels
        /\ (/\ ~NamesLabel(cls.result, S_GREETING)
            /\ ~NamesLabel(cls.result, S_KNOWLEDGE)
            /\ ~HasKeyword(cls.query))
           => cls.label = "OFF_TOPIC"

W_C31_UnsureOutputOffTopic ==
    /\ cls.pc = "returned"
    /\ cls.result = InvokeResult(<<"u", "n", "s", "u", "r", "e">>)
    /\ cls.query = Q_sort
    /\ cls.label = "OFF_TOPIC"

(***************************************************************************)
(* C32.  In a KNOWLEDGE or fast-mode turn the generation step receives a   *)
(* non-empty context exactly when retrieval returned at least one          *)
(* document, whatever the text of the documents.                           *)
(***************************************************************************)
C32_ContextIffDocumentsFound ==
    genKind = "response" => ((genContext # <<>>) <=> (toolOutcome = "found"))

(***************************************************************************)
(* Concurrent calls of addDocument (two PUT or POST /ingest requests in    *)
(* flight): each call is suspended at its awaits, and the calls share the  *)
(* module variable `table` and the table of the database.                  *)
(***************************************************************************)
MaxCalls == 2

UpsertIds == {1, 2}

\* call c not started
NoUpsert == [pc |-> "idle", id |-> 0, record |-> <<>>]

\* the record call c writes for id
UpsertRecord(c, id) ==
    BuildRecord(id, Embed(<<"text of call">>), <<"text of call">>,
                [title |-> <<"Doc">>, created_at |-> 0, updated_at |-> c])

kbcFrame == <<turnVars, pt, rag, conc, kb, qd, chat, strm, cfgdb, cls, sse, rd>>

\* initLanceDB has completed: `table` is open exactly when the table exists
InitUpsert ==
    /\ TurnParked
    /\ knowledgeConfig = [maxDocuments |-> 3, similarityThreshold |-> 140,
                          maxContextLength |-> 2000]
    /\ db = TRUE
    /\ table = TRUE
    /\ embeddingPipeline = TRUE
    /\ pt = PtIdle
    /\ rag = RagIdle
    /\ conc = ConcIdle
    /\ kb = KbIdle
    /\ qd = QdIdle
    /\ chat = ChatIdle
    /\ strm = StrmIdle
    /\ cfgdb = CfgIdle
    /\ cls = ClsIdle
    /\ sse = SseIdle
    /\ rd = RdIdle
    /\ \E exists \in BOOLEAN :
          kbc = [exists |-> exists, table |-> exists, rows |-> <<>>,
                 calls |-> [c \in 1..MaxCalls |-> NoUpsert]]

\* addDocument(id, text, metadata) up to `await generateEmbedding(text)`
upsert_call ==
    /\ \E c \in 1..MaxCalls, id \in UpsertIds :
          /\ kbc.calls[c].pc = "idle"
          /\ kbc' = [kbc EXCEPT !.calls[c] = [NoUpsert EXCEPT !.pc = "embed", !.id = id]]
    /\ UNCHANGED kbcFrame

\* the embedding resolves: the record is built, `if (!table)` is tested
upsert_embedReturn ==
    /\ \E c \in 1..MaxCalls :
          /\ kbc.calls[c].pc = "embed"
          /\ kbc' = [kbc EXCEPT
                       !.calls[c].record = UpsertRecord(c, kbc.calls[c].id),
                       !.calls[c].pc = IF ~kbc.table THEN "tableNames" ELSE "delete"]
    /\ UNCHANGED kbcFrame

\* db.tableNames() resolves
upsert_tableNamesReturn ==
    /\ \E c \in 1..MaxCalls :
          /\ kbc.calls[c].pc = "tableNames"
          /\ kbc' = [kbc EXCEPT
                       !.calls[c].pc = IF kbc.exists THEN "openTable" ELSE "createTable"]
    /\ UNCHANGED kbcFrame

\* db.openTable(TABLE_NAME) resolves
upsert_openTableReturn ==
    /\ \E c \in 1..MaxCalls :
          /\ kbc.calls[c].pc = "openTable"
          /\ kbc' = [kbc EXCEPT !.table = TRUE, !.calls[c].pc = "delete"]
    /\ UNCHANGED kbcFrame

\* db.createTable(TABLE_NAME, [record]) settles: it creates the table with
\* the record, or rejects because the table exists by now
upsert_createTableSettle ==
    /\ \E c \in 1..MaxCalls :
          /\ kbc.calls[c].pc = "createTable"
          /\ kbc' = IF ~kbc.exists
                    THEN [kbc EXCEPT !.exists = TRUE, !.table = TRUE,
                                     !.rows = <<kbc.calls[c].record>>,
                                     !.calls[c].pc = "done"]
                    ELSE [kbc EXCEPT !.calls[c].pc = "failed"]
    /\ UNCHANGED kbcFrame

\* table.delete(`id = '${id}'`) resolves
upsert_deleteReturn ==
    /\ \E c \in 1..MaxCalls :
          /\ kbc.calls[c].pc = "delete"
          /\ kbc' = [kbc EXCEPT !.rows = DeleteRows(kbc.rows, kbc.calls[c].id),
                                !.calls[c].pc = "add"]
    /\ UNCHANGED kbcFrame

\* table.delete rejects: caught and ignored
upsert_deleteThrow ==
    /\ \E c \in 1..MaxCalls :
          /\ kbc.calls[c].pc = "delete"
          /\ kbc' = [kbc EXCEPT !.calls[c].pc = "add"]
    /\ UNCHANGED kbcFrame

\* table.add([record]) resolves
upsert_addReturn ==
    /\ \E c \in 1..MaxCalls :
          /\ kbc.calls[c].pc = "add"
          /\ kbc' = [kbc EXCEPT !.rows = Append(kbc.rows, kbc.calls[c].record),
                                !.calls[c].pc = "done"]
    /\ UNCHANGED kbcFrame

NextUpsert ==
    \/ upsert_call
    \/ upsert_embedReturn
    \/ upsert_tableNamesReturn
    \/ upsert_openTableReturn
    \/ upsert_createTableSettle
    \/ upsert_deleteReturn
    \/ upsert_deleteThrow
    \/ upsert_addReturn

SpecUpsert == InitUpsert /\ [][NextUpsert]_vars

UpsertsSettled ==
    /\ \E c \in 1..MaxCalls : kbc.calls[c].pc # "idle"
    /\ \A c \in 1..MaxCalls : kbc.calls[c].pc \in {"idle", "done", "failed"}

\* the rows of the table that carry the id
RowsOfId(id) == SelectSeq(kbc.rows, LAMBDA r : r.id = id)

(***************************************************************************)
(* C33.  When concurrent calls of addDocument have all settled, in any     *)
(* interleaving of their awaits, none has failed and the table holds       *)
(* exactly one record for each id that was upserted.                       *)
(***************************************************************************)
C33_ConcurrentUpsertsOneRow ==
    UpsertsSettled =>
        /\ \A c \in 1..MaxCalls : kbc.calls[c].pc # "failed"
        /\ \A c \in 1..MaxCalls :
              kbc.calls[c].pc = "done" => Len(RowsOfId(kbc.calls[c].id)) = 1

(***************************************************************************)
(* C34.  The generation pipeline is created at most once, whatever the     *)
(* interleaving of the concurrent calls of getInstance: createPipeline     *)
(* completes, assigns `instance` and is followed by the broadcast of       *)
(* { ready: true } at most once.                                           *)
(***************************************************************************)
C34_PipelineCreatedOnce == conc.created <= 1

(***************************************************************************)
(* The generator of _streamResponseChunks with a consumer that keeps       *)
(* asking for the next chunk (for await): an enabled step of the loop is   *)
(* taken.  Nothing is assumed of the generation: it may never settle.      *)
(***************************************************************************)
SpecStreamFair ==
    /\ SpecStream
    /\ WF_vars(stream_yield)
    /\ WF_vars(stream_finish)
    /\ WF_vars(stream_wait)

\* the loop has ended as the outcome of the generation asks, queue drained
StreamEnded ==
    /\ strm.pc = IF strm.error THEN "thrown" ELSE "done"
    /\ strm.queue = <<>>
    /\ strm.yielded = NonEmpty(strm.produced)

(***************************************************************************)
(* C35.  Once the generation call has settled, the token stream ends: by   *)
(* return when the generation succeeded, by throw when it failed, and in   *)
(* both cases only after every token queued before has been yielded.  No   *)
(* wake-up is lost: a generator waiting for the next chunk is resumed.     *)
(***************************************************************************)
C35_StreamEndsAfterSettle == (strm.generation = "settled") ~> StreamEnded

W_C35_ThrownAfterQueuedTokens ==
    /\ strm.pc = "thrown"
    /\ Len(strm.yielded) >= 2
    /\ strm.resolveNext

(***************************************************************************)
(* POST /api/chat/stream: concurrent requests, each with its own response  *)
(* and its own `fullReply`, around one messages table.  The orchestrator   *)
(* is what it is to the route: a call that gives tokens to onToken and     *)
(* then resolves or rejects.                                               *)
(***************************************************************************)
MaxReqs == 2

MaxSinkTokens == 2

HISTORY_LIMIT_MODEL == 24

\* req.body.content of the requests
StreamBodies ==
    { [type |-> "string", value |-> <<" ", " ">>],
      [type |-> "string", value |-> <<" ", "who is Hasinthaka?", " ">>] }

\* what the orchestrator may give to onToken
SinkTokens == { <<"<think>">>, <<"Hello">> }

\* request r not received
NoRequest ==
    [pc |-> "idle", session |-> "", content |-> <<>>, history |-> <<>>,
     events |-> <<>>, fullReply |-> <<>>, sink |-> <<>>, status |-> ""]

\* a variant of the catch block below that writes nothing
CatchEventsNone(err) == <<>>

\* catch (err): writeSSE(res, { type: "error", error })
CatchEvents(err) == <<[type |-> "error", error |-> err]>>

\* a variant of `fullReply += token` with one fullReply for all requests
OnTokenRepliesShared(reqs, r, token) ==
    [q \in DOMAIN reqs |->
        IF reqs[q].pc = "running" THEN reqs[q].fullReply \o token
        ELSE reqs[q].fullReply]

\* fullReply += token, in the closure of request r
OnTokenReplies(reqs, r, token) ==
    [q \in DOMAIN reqs |->
        IF q = r THEN reqs[q].fullReply \o token ELSE reqs[q].fullReply]

\* history.map(m => m.role === "user" ? new HumanMessage(...) : new AIMessage(...))
LangchainHistory(stored) ==
    [k \in 1..Len(stored) |->
        IF stored[k].role = "user" THEN HumanMessage(stored[k].content)
        ELSE AIMessage(stored[k].content)]

\* new Date().toISOString(): here every reading is later than the one before
SseInstants == {sse.clock + 1}

\* the cookie of a request: a session seen before or a new one (the first
\* session there is is called s1)
SseSessions == IF sse.messages = <<>> THEN {"s1"} ELSE Sessions

sseFrame == <<turnVars, pt, rag, conc, kb, qd, chat, strm, cfgdb, cls, rd, kbc>>

InitSse ==
    /\ TurnParked
    /\ knowledgeConfig = [maxDocuments |-> 3, similarityThreshold |-> 140,
                          maxContextLength |-> 2000]
    /\ db = TRUE
    /\ table = TRUE
    /\ embeddingPipeline = TRUE
    /\ pt = PtIdle
    /\ rag = RagIdle
    /\ conc = ConcIdle
    /\ kb = KbIdle
    /\ qd = QdIdle
    /\ chat = ChatIdle
    /\ strm = StrmIdle
    /\ cfgdb = CfgIdle
    /\ cls = ClsIdle
    /\ rd = RdIdle
    /\ kbc = KbcIdle
    /\ sse = [SseIdle EXCEPT !.reqs = [r \in 1..MaxReqs |-> NoRequest]]

\* router.post("/stream") up to the await of the orchestrator
stream_post ==
    /\ \E r \in 1..MaxReqs, body \in StreamBodies, sessionId \in SseSessions,
          instant \in SseInstants :
          /\ sse.reqs[r].pc = "idle"
          /\ \A q \in 1..(r - 1) : sse.reqs[q].pc # "idle"
          /\ LET content == ContentOf(body)
                 userMsg == [id |-> sse.issued + 1, role |-> "user",
                             content |-> content, timestamp |-> instant]
                 messages == addMessage(sse.messages, sessionId, userMsg)
             IN  IF content = <<>>
                 THEN sse' = [sse EXCEPT !.reqs[r].pc = "rejected",
                                         !.reqs[r].status = "400"]
                 ELSE \E window \in getMessages(messages, sessionId,
                                                HISTORY_LIMIT_MODEL) :
                         sse' = [sse EXCEPT
                                   !.messages = messages,
                                   !.clock = instant,
                                   !.issued = sse.issued + 1,
                                   !.reqs[r] =
                                       [NoRequest EXCEPT
                                          !.pc = "running",
                                          !.session = sessionId,
                                          !.content = content,
                                          !.history = LangchainHistory(window),
                                          !.events = <<[type |-> "user",
                                                        message |-> userMsg]>>]]
    /\ UNCHANGED sseFrame

\* onToken(token), called by the orchestrator of request r
stream_onToken ==
    /\ \E r \in 1..MaxReqs, token \in SinkTokens :
          /\ sse.reqs[r].pc = "running"
          /\ Len(sse.reqs[r].sink) < MaxSinkTokens
          /\ sse' = [sse EXCEPT
                       !.reqs = [q \in 1..MaxReqs |->
                                   [sse.reqs[q] EXCEPT
                                      !.fullReply =
                                          OnTokenReplies(sse.reqs, r, token)[q],
                                      !.sink = IF q = r THEN Append(@, token) ELSE @,
                                      !.events =
                                          IF q = r
                                          THEN Append(@, [type |-> "chunk",
                                                          content |-> token])
                                          ELSE @]]]
    /\ UNCHANGED sseFrame

\* the orchestrator resolves: assistant message, done event, res.end()
stream_agentReturn ==
    /\ \E r \in 1..MaxReqs, instant \in SseInstants :
          /\ sse.reqs[r].pc = "running"
          /\ LET assistantMsg == [id |-> sse.issued + 1, role |-> "assistant",
                                  content |-> sse.reqs[r].fullReply,
                                  timestamp |-> instant]
             IN  sse' = [sse EXCEPT
                           !.messages = addMessage(sse.messages,
                                                   sse.reqs[r].session, assistantMsg),
                           !.clock = instant,
                           !.issued = sse.issued + 1,
                           !.reqs[r].events =
                               Append(@, [type |-> "done", message |-> assistantMsg]),
                           !.reqs[r].status = "200",
                           !.reqs[r].pc = "ended"]
    /\ UNCHANGED sseFrame

\* the orchestrator rejects: error event, statusCode 500, res.end()
stream_agentThrow ==
    /\ \E r \in 1..MaxReqs :
          /\ sse.reqs[r].pc = "running"
          /\ sse' = [sse EXCEPT
                       !.reqs[r].events = @ \o CatchEvents("AI generation failed"),
                       !.reqs[r].status = "500",
                       !.reqs[r].pc = "ended"]
    /\ UNCHANGED sseFrame

NextSse ==
    \/ stream_post
    \/ stream_onToken
    \/ stream_agentReturn
    \/ stream_agentThrow

SpecSse == InitSse /\ [][NextSse]_vars

\* the requests that passed the test of the content
Accepted == {r \in 1..MaxReqs : sse.reqs[r].pc \in {"running", "ended"}}

IsTerminal(event) == event.type \in {"done", "error"}

\* the strings of a list, one after the other
RECURSIVE Concat(_)
Concat(texts) ==
    IF texts = <<>> THEN <<>> ELSE Head(texts) \o Concat(Tail(texts))

ChunkContents(events) ==
    LET chunks == SelectSeq(events, LAMBDA e : e.type = "chunk")
    IN  [k \in 1..Len(chunks) |-> chunks[k].content]

\* the assistant message is in the messages table, under the session
Stored(sessionId, msg) ==
    \E k \in 1..Len(sse.messages) :
       /\ sse.messages[k].session_id = sessionId
       /\ StoredMessage(sse.messages[k]) = msg

(***************************************************************************)
(* C36.  The events written to the response of an accepted POST /stream    *)
(* request are one user event, then chunk events, then one terminal        *)
(* event, done or error, which is the last event and is written exactly    *)
(* when the response is ended; a done event carries an assistant message   *)
(* that is already in the session log.                                     *)
(***************************************************************************)
C36_EventOrderAndTerminal ==
    \A r \in Accepted :
       LET events == sse.reqs[r].events
       IN  /\ Len(events) >= 1
           /\ events[1].type = "user"
           /\ \A k \in 2..Len(events) :
                 /\ events[k].type \in {"chunk", "done", "error"}
                 /\ IsTerminal(events[k]) => k = Len(events)
           /\ (sse.reqs[r].pc = "ended") <=> IsTerminal(events[Len(events)])
           /\ events[Len(events)].type = "done"
                 => Stored(sse.reqs[r].session, events[Len(events)].message)

W_C36_ErrorAfterChunks ==
    \E r \in Accepted :
       /\ sse.reqs[r].pc = "ended"
       /\ Len(sse.reqs[r].events) = 4
       /\ sse.reqs[r].events[4].type = "error"

(***************************************************************************)
(* C37.  The assistant message of a done event, which is the message       *)
(* stored, has as content the tokens the orchestrator gave to the sink of  *)
(* that request, in order, one after the other; this is also what the      *)
(* chunk events of the response add up to.  Tokens of a concurrent         *)
(* request are not part of it.                                             *)
(***************************************************************************)
C37_DoneIsConcatOfOwnTokens ==
    \A r \in Accepted :
       LET events == sse.reqs[r].events
           last == events[Len(events)]
       IN  last.type = "done" =>
              /\ last.message.content = Concat(sse.reqs[r].sink)
              /\ last.message.content = Concat(ChunkContents(events))

W_C37_TwoTurnsInterleaved ==
    /\ \A r \in 1..MaxReqs :
          /\ sse.reqs[r].pc = "ended"
          /\ sse.reqs[r].events[Len(sse.reqs[r].events)].type = "done"
          /\ Len(sse.reqs[r].sink) = 2
    /\ sse.reqs[1].sink # sse.reqs[2].sink

\* how many times msg is in the list
CountOf(msg, list) == Cardinality({k \in 1..Len(list) : list[k] = msg})

(***************************************************************************)
(* C38.  The message list classifyIntent and generateSearchQuery send to   *)
(* the generation service holds the utterance of the turn once: the        *)
(* history the route passes does not end with it already.                  *)
(***************************************************************************)
C38_UtteranceSentOnce ==
    \A r \in Accepted :
       /\ CountOf(HumanMessage(sse.reqs[r].content),
                  classifyMessages(sse.reqs[r].content, sse.reqs[r].history)) = 1
       /\ CountOf(HumanMessage(sse.reqs[r].content),
                  searchQueryMessages(sse.reqs[r].content, sse.reqs[r].history)) = 1

\* the ranges PUT /config accepts, in hundredths
InRange(config) ==
    /\ ~config.maxDocuments.nan
    /\ config.maxDocuments.v >= 100 /\ config.maxDocuments.v <= 2000
    /\ ~config.similarityThreshold.nan
    /\ config.similarityThreshold.v >= 0 /\ config.similarityThreshold.v <= 100
    /\ ~config.maxContextLength.nan
    /\ config.maxContextLength.v >= 10000 /\ config.maxContextLength.v <= 1000000

(***************************************************************************)
(* C39.  After any PUT /config requests, accepted or rejected, the         *)
(* configuration read from the table has maxDocuments in 1..20,            *)
(* similarityThreshold in 0..1 and maxContextLength in 100..10000; and a   *)
(* request answered 400 has left every row of the table as it was.         *)
(***************************************************************************)
C39_ConfigStaysInRange ==
    /\ InRange(getKnowledgeConfigFrom(cfgdb.db, cfgdb.rows))
    /\ (cfgdb.last.op = "put" /\ cfgdb.last.status = "400")
          => cfgdb.rows = cfgdb.last.before

W_C39_RejectedWithValidField ==
    /\ cfgdb.db
    /\ cfgdb.last.op = "put"
    /\ cfgdb.last.status = "400"
    /\ cfgdb.last.input.maxDocuments = Given(250)
    /\ cfgdb.last.input.similarityThreshold = Given(5)
    /\ cfgdb.last.input.maxContextLength = Given(5000)
    /\ cfgdb.rows["maxDocuments"] = <<"3">>

(***************************************************************************)
(* The client's reader of POST /api/chat/stream (sendMessageStream) and    *)
(* the server's writeSSE.  A text is a sequence of characters; the         *)
(* double-quote character is written "dq".  The punctuation and keys of a  *)
(* JSON object are written as one piece each, e.g. "{type:chunk,content:"  *)
(* for the opening of a chunk event up to its string; the transport cuts   *)
(* the stream between pieces.  On the wire the character "é" is the two    *)
(* bytes "c3" "a9"; every other piece is one unit.                         *)
(***************************************************************************)
MaxStreamChunks == 2

UserOpen == "{type:user,message:{id:"
DoneOpen == "{type:done,message:{id:"
RoleUser == ",role:user,content:"
RoleAssistant == ",role:assistant,content:"
MsgClose == ",timestamp:T}}"
ChunkOpen == "{type:chunk,content:"
ErrorOpen == "{type:error,error:"
ObjClose == "}"
DataPrefix == <<"d", "a", "t", "a", ":", " ">>
JsonPieces ==
    {UserOpen, DoneOpen, RoleUser, RoleAssistant, MsgClose, ChunkOpen,
     ErrorOpen, ObjClose}

\* JSON.stringify of a string: quotes around it; the quote, the backslash
\* and the newline escaped; other characters as they are
RECURSIVE Escape(_)
Escape(text) ==
    IF text = <<>> THEN <<>>
    ELSE (CASE Head(text) = "dq" -> <<"\\", "dq">>
            [] Head(text) = "\\" -> <<"\\", "\\">>
            [] Head(text) = "\n" -> <<"\\", "n">>
            [] OTHER -> <<Head(text)>>) \o Escape(Tail(text))

JsonString(text) == <<"dq">> \o Escape(text) \o <<"dq">>

JsonMessage(message) ==
    JsonString(message.id)
       \o <<IF message.role = "user" THEN RoleUser ELSE RoleAssistant>>
       \o JsonString(message.content) \o <<MsgClose>>

\* JSON.stringify of the objects the route hands to writeSSE
Stringify(event) ==
    CASE event.type = "user" -> <<UserOpen>> \o JsonMessage(event.message)
      [] event.type = "done" -> <<DoneOpen>> \o JsonMessage(event.message)
      [] event.type = "chunk" ->
            <<ChunkOpen>> \o JsonString(event.content) \o <<ObjClose>>
      [] event.type = "error" ->
            <<ErrorOpen>> \o JsonString(event.error) \o <<ObjClose>>

\* the text of one writeSSE call
writeSSE(event) == DataPrefix \o Stringify(event) \o <<"\n", "\n">>

\* the text of all the writeSSE calls of a response
WriteAll(events) == Concat([i \in 1..Len(events) |-> writeSSE(events[i])])

\* res.write encodes the text it is given as UTF-8
RECURSIVE Utf8Encode(_)
Utf8Encode(text) ==
    IF text = <<>> THEN <<>>
    ELSE (IF Head(text) = "é" THEN <<"c3", "a9">> ELSE <<Head(text)>>)
            \o Utf8Encode(Tail(text))

\* the bytes on the wire: one res.write for each writeSSE call
WireOf(events) ==
    Concat([i \in 1..Len(events) |-> Utf8Encode(writeSSE(events[i]))])

\* what the byte at index i of a transport chunk decodes to: "" when it is
\* the second byte of a character or the first byte of an unfinished one
DecodedAt(bytes, i) ==
    IF bytes[i] = "c3"
    THEN IF i = Len(bytes) THEN ""
         ELSE IF bytes[i + 1] = "a9" THEN "é" ELSE "U+FFFD"
    ELSE IF bytes[i] = "a9"
         THEN IF i > 1 /\ bytes[i - 1] = "c3" THEN "" ELSE "U+FFFD"
    ELSE bytes[i]

\* TextDecoderStream on one transport chunk: complete characters come out,
\* the first byte of an unfinished character is kept for the next chunk; a
\* byte that cannot start or continue a character comes out as U+FFFD
Utf8Decode(bytes) ==
    [text |-> SelectSeq([i \in 1..Len(bytes) |-> DecodedAt(bytes, i)],
                        LAMBDA c : c # ""),
     pending |-> IF bytes # <<>> /\ bytes[Len(bytes)] = "c3"
                 THEN <<"c3">> ELSE <<>>]

\* where String.prototype.split finds the separator, one newline or two:
\* from the left, each match after the end of the one before
SeparatorStarts(text, sepLen) ==
    { i \in 1..(Len(text) - sepLen + 1) :
        /\ \A k \in 0..(sepLen - 1) : text[i + k] = "\n"
        /\ LET others == {j \in 1..(i - 1) : text[j] # "\n"}
               runStart == IF others = {} THEN 1
                           ELSE 1 + CHOOSE j \in others :
                                       \A o \in others : o <= j
           IN  (i - runStart) % sepLen = 0 }

\* String.prototype.split with a separator of one or of two newlines
SplitOn(text, sepLen) ==
    LET starts == SeparatorStarts(text, sepLen)
        count == Cardinality(starts)
        nth(k) == CHOOSE i \in starts :
                     Cardinality({j \in starts : j < i}) = k - 1
    IN  [k \in 1..(count + 1) |->
           SubSeq(text,
                  IF k = 1 THEN 1 ELSE nth(k - 1) + sepLen,
                  IF k = count + 1 THEN Len(text) ELSE nth(k) - 1)]

StartsWithData(line) ==
    Len(line) >= Len(DataPrefix)
       /\ SubSeq(line, 1, Len(DataPrefix)) = DataPrefix

\* part.split("\n").find((l) => l.startsWith("data: ")), as a list of at
\* most one line
FindDataLine(part) ==
    LET lines == SelectSeq(SplitOn(part, 1), StartsWithData)
    IN  IF lines = <<>> THEN <<>> ELSE <<Head(lines)>>

ParseError == [type |-> "SyntaxError"]

\* JSON.parse of a string literal at the head of the text: its value and
\* the text after its closing quote
RECURSIVE ScanString(_, _)
ScanString(text, value) ==
    IF text = <<>> THEN [ok |-> FALSE]
    ELSE IF Head(text) = "dq"
         THEN [ok |-> TRUE, value |-> value, rest |-> Tail(text)]
    ELSE IF Head(text) = "\\"
         THEN IF Len(text) >= 2 /\ text[2] \in {"dq", "\\", "n"}
              THEN ScanString(SubSeq(text, 3, Len(text)),
                              Append(value, IF text[2] = "n" THEN "\n"
                                            ELSE text[2]))
              ELSE [ok |-> FALSE]
    ELSE IF Head(text) = "\n" \/ Head(text) \in JsonPieces
         THEN [ok |-> FALSE]
    ELSE ScanString(Tail(text), Append(value, Head(text)))

ReadString(text) ==
    IF text # <<>> /\ Head(text) = "dq" THEN ScanString(Tail(text), <<>>)
    ELSE [ok |-> FALSE]

ParseMessage(type, text) ==
    LET id == ReadString(text)
    IN  IF ~id.ok \/ id.rest = <<>>
           \/ Head(id.rest) \notin {RoleUser, RoleAssistant}
        THEN ParseError
        ELSE LET content == ReadString(Tail(id.rest))
             IN  IF content.ok /\ content.rest = <<MsgClose>>
                 THEN [type |-> type,
                       message |->
                          [id |-> id.value,
                           role |-> IF Head(id.rest) = RoleUser THEN "user"
                                    ELSE "assistant",
                           content |-> content.value]]
                 ELSE ParseError

\* JSON.parse of the text after "data: "
JsonParse(text) ==
    IF text = <<>> THEN ParseError
    ELSE IF Head(text) = UserOpen THEN ParseMessage("user", Tail(text))
    ELSE IF Head(text) = DoneOpen THEN ParseMessage("done", Tail(text))
    ELSE IF Head(text) \in {ChunkOpen, ErrorOpen}
         THEN LET str == ReadString(Tail(text))
              IN  IF str.ok /\ str.rest = <<ObjClose>>
                  THEN IF Head(text) = ChunkOpen
                       THEN [type |-> "chunk", content |-> str.value]
                       ELSE [type |-> "error", error |-> str.value]
                  ELSE ParseError
    ELSE ParseError

OnUserMessage(message) == [cb |-> "onUserMessage", message |-> message]
OnChunk(chunk) == [cb |-> "onChunk", text |-> chunk]
OnDone(message) == [cb |-> "onDone", message |-> message]
OnError(err) == [cb |-> "onError", text |-> err]

\* processLine: the callbacks one line makes (none or one)
processLine(line) ==
    IF ~StartsWithData(line) THEN <<>>
    ELSE LET data == JsonParse(SubSeq(line, Len(DataPrefix) + 1, Len(line)))
         IN  CASE data.type = "user" -> <<OnUserMessage(data.message)>>
               [] data.type = "chunk" -> <<OnChunk(data.content)>>
               [] data.type = "done" -> <<OnDone(data.message)>>
               [] data.type = "error" /\ data.error # <<>> ->
                     <<OnError(data.error)>>
               [] OTHER -> <<>>

\* for (const part of parts) { find the data line; processLine(line) }
RECURSIVE ProcessParts(_)
ProcessParts(parts) ==
    IF parts = <<>> THEN <<>>
    ELSE LET line == FindDataLine(Head(parts))
         IN  (IF line = <<>> THEN <<>> ELSE processLine(line[1]))
                \o ProcessParts(Tail(parts))

\* buffer = parts.pop() ?? ""
Carry(parts) == parts[Len(parts)]

\* the tokens the route's sink may receive
StreamTokens == {<<"H">>, <<"\n", "\n">>, <<"é", "dq">>}

\* the texts of the error event: err.message, which may be empty
ErrorTexts == {<<>>, <<"E">>}

\* what POST /api/chat/stream writes: the user event, the chunk events and
\* one terminal event; the done event carries the tokens joined
EventStreams ==
    { <<[type |-> "user",
         message |-> [id |-> <<"1">>, role |-> "user",
                      content |-> <<"h", "\\">>]]>>
         \o [i \in 1..Len(tokens) |->
               [type |-> "chunk", content |-> tokens[i]]]
         \o <<terminal>> :
        tokens \in SeqsUpTo(StreamTokens, MaxStreamChunks),
        terminal \in
           { [type |-> "error", error |-> e] : e \in ErrorTexts } }
    \cup
    { <<[type |-> "user",
         message |-> [id |-> <<"1">>, role |-> "user",
                      content |-> <<"h", "\\">>]]>>
         \o [i \in 1..Len(tokens) |->
               [type |-> "chunk", content |-> tokens[i]]]
         \o <<[type |-> "done",
               message |-> [id |-> <<"2">>, role |-> "assistant",
                            content |-> Concat(tokens)]]>> :
        tokens \in SeqsUpTo(StreamTokens, MaxStreamChunks) }

\* what onError receives when the response is not ok (err.details ??
\* err.error ?? "Failed to send message") or has no body
RefusalTexts ==
    {<<"content is required">>, <<"Failed to send message">>,
     <<"No response body">>}

rdFrame ==
    UNCHANGED <<turnVars, pt, rag, conc, kb, qd, chat, strm, cfgdb, cls, sse,
                kbc>>

InitReader ==
    /\ TurnParked
    /\ knowledgeConfig = [maxDocuments |-> 3, similarityThreshold |-> 140,
                          maxContextLength |-> 2000]
    /\ db = TRUE
    /\ table = TRUE
    /\ embeddingPipeline = TRUE
    /\ pt = PtIdle
    /\ rag = RagIdle
    /\ conc = ConcIdle
    /\ StoresIdle

\* fetch resolves with an ok response that has a body: the reader is opened
reader_fetchThen ==
    /\ rd.pc = "idle"
    /\ \E events \in EventStreams :
          rd' = [rd EXCEPT !.pc = "reading", !.events = events,
                           !.wire = WireOf(events)]
    /\ rdFrame

\* the response is not ok, or has no body: onError and return
reader_refused ==
    /\ rd.pc = "idle"
    /\ \E text \in RefusalTexts :
          rd' = [rd EXCEPT !.pc = "refused", !.calls = <<OnError(text)>>]
    /\ rdFrame

\* the transport hands over some bytes; the decoder turns them into text
\* and, when there is any, one turn of the while loop runs on it
reader_read ==
    /\ rd.pc = "reading"
    /\ \E n \in 1..(Len(rd.wire) - rd.pos) :
          LET decoded == Utf8Decode(rd.pending
                                       \o SubSeq(rd.wire, rd.pos + 1,
                                                 rd.pos + n))
              parts == SplitOn(rd.buffer \o decoded.text, 2)
          IN  rd' = IF decoded.text = <<>>
                    THEN [rd EXCEPT !.pos = @ + n,
                                    !.pending = decoded.pending]
                    ELSE [rd EXCEPT
                            !.pos = @ + n,
                            !.pending = decoded.pending,
                            !.buffer = Carry(parts),
                            !.calls = @ \o ProcessParts(
                                        SubSeq(parts, 1, Len(parts) - 1))]
    /\ rdFrame

\* the stream is closed: the decoder flushes, read() reports done, and what
\* is left in the buffer is processed
reader_end ==
    /\ rd.pc = "reading"
    /\ rd.pos = Len(rd.wire)
    /\ LET flushed == IF rd.pending = <<>> THEN <<>> ELSE <<"U+FFFD">>
           parts == SplitOn(rd.buffer \o flushed, 2)
           left == IF flushed = <<>> THEN rd.buffer ELSE Carry(parts)
           line == FindDataLine(left)
       IN  rd' = [rd EXCEPT
                    !.pc = "ended",
                    !.pending = <<>>,
                    !.buffer = left,
                    !.calls = @ \o (IF flushed = <<>> THEN <<>>
                                    ELSE ProcessParts(
                                           SubSeq(parts, 1, Len(parts) - 1)))
                                \o (IF left = <<>> \/ line = <<>> THEN <<>>
                                    ELSE processLine(line[1]))]
    /\ rdFrame

\* reader.read() rejects: .catch calls onError with the error's message
reader_catch ==
    /\ rd.pc = "reading"
    /\ rd' = [rd EXCEPT !.pc = "failed",
                        !.calls = @ \o <<OnError(<<"network error">>)>>]
    /\ rdFrame

NextReader ==
    \/ reader_fetchThen
    \/ reader_refused
    \/ reader_read
    \/ reader_end
    \/ reader_catch

SpecReader == InitReader /\ [][NextReader]_vars

\* the callback that stands for an event
CallbackOf(event) ==
    CASE event.type = "user" -> OnUserMessage(event.message)
      [] event.type = "chunk" -> OnChunk(event.content)
      [] event.type = "done" -> OnDone(event.message)
      [] event.type = "error" -> OnError(event.error)

\* the callbacks of a reader that gets the whole stream in one read
WholeStreamCalls(events) ==
    LET parts == SplitOn(WriteAll(events), 2)
        line == FindDataLine(Carry(parts))
    IN  ProcessParts(SubSeq(parts, 1, Len(parts) - 1))
           \o (IF line = <<>> THEN <<>> ELSE processLine(line[1]))

\* However the transport cuts the stream, the callbacks made when the
\* stream has ended are those of the whole stream read at once.
ReadsDoNotMatter ==
    rd.pc = "ended" => rd.calls = WholeStreamCalls(rd.events)

(***************************************************************************)
(* C40.  Whatever the division of the event stream into reads, when the    *)
(* stream has ended sendMessageStream has made one callback for each event *)
(* written, in the order written: onUserMessage, onChunk, onDone, onError. *)
(***************************************************************************)
C40_EveryEventDeliveredOnce ==
    rd.pc = "ended"
       => rd.calls = [i \in 1..Len(rd.events) |-> CallbackOf(rd.events[i])]

====
